---------------------------- MODULE Spec2Model ----------------------------
(***************************************************************************)
(* Binary decoders of the Pokemon Team Builder: the Gen 3 cartridge save   *)
(* parser (features/gba_support.py) and the GameCube memory-card export    *)
(* parser (features/memory_card.py); with them the memory card's slot      *)
(* list (MemoryCard.add_slot, remove_slot) and the link cable's sessions   *)
(* and transfer history (trading/gba_trading.py).                          *)
(*                                                                         *)
(* Byte strings.  A Python bytes value is a record [len, b]: len is its    *)
(* length and b maps some of the offsets below len to their bytes; every   *)
(* offset below len that b leaves out holds 0.  All offsets and sizes are  *)
(* the program's own (a section is 4096 bytes, a slot 57344).              *)
(*                                                                         *)
(* 32-bit words.  TLC's integers are 32-bit signed, so an unsigned 32-bit  *)
(* value is carried as its two 16-bit halves [hi, lo].                     *)
(*                                                                         *)
(* Exceptions.  A read outside its buffer raises struct.error/IndexError   *)
(* in Python; the read operators return -1 (a word with hi = -1) there,    *)
(* and every caller turns it into what its try/except makes of it, or      *)
(* into Fault when no handler encloses the read.                           *)
(***************************************************************************)
EXTENDS Integers, Sequences, FiniteSets, TLC

VARIABLES call, pc, given, input, cand_a, cand_b, result, transferable,
          frames, slots, _active_link_sessions, _transfer_history, now

vars == <<call, pc, given, input, cand_a, cand_b, result, transferable,
          frames, slots, _active_link_sessions, _transfer_history, now>>

\* the variables of the memory card, of the link cable and of concurrent parse
\* calls, which the single-call operations never touch
objectVars == <<frames, slots, _active_link_sessions, _transfer_history, now>>

---------------------------------------------------------------------------
(* Program constants *)

GBA_SAVE_SIZE      == 131072
GBA_SECTION_SIZE   == 4096
GBA_SLOT_SIZE      == 57344
GBA_SECTION_COUNT  == 14
GBA_FOOTER_OFFSET  == 4088
\* a footer offset whose 16-bit read would cross the end of the section
FooterIdPastEnd    == GBA_SECTION_SIZE - 1
GBA_SECTION_ID_OFF == 4088
GBA_CHECKSUM_OFF   == 4090
GBA_SAVE_INDEX_OFF == 4092

PK3_SIZE           == 100
PK3_HEADER_SIZE    == 32
PK3_DATA_SIZE      == 48
PK3_STATUS_SIZE    == 20

SECTION_PC_BUFFER_A == 5

PARTY_COUNT_OFFSET == 564
PARTY_DATA_OFFSET  == 568

PC_BOX_COUNT       == 14
PC_BOX_SIZE        == 30
PC_POKEMON_SIZE    == 80

\* an order table whose last entry repeats a letter (and loses Growth)
OrderTableWithRepeat ==
  << <<"G","A","E","M">>, <<"G","A","M","E">>, <<"G","E","A","M">>,
     <<"G","E","M","A">>, <<"G","M","A","E">>, <<"G","M","E","A">>,
     <<"A","G","E","M">>, <<"A","G","M","E">>, <<"A","E","G","M">>,
     <<"A","E","M","G">>, <<"A","M","G","E">>, <<"A","M","E","G">>,
     <<"E","G","A","M">>, <<"E","G","M","A">>, <<"E","A","G","M">>,
     <<"E","A","M","G">>, <<"E","M","G","A">>, <<"E","M","A","G">>,
     <<"M","G","A","E">>, <<"M","G","E","A">>, <<"M","A","G","E">>,
     <<"M","A","E","G">>, <<"M","E","G","A">>, <<"M","E","A","A">> >>

SUBSTRUCTURE_ORDER ==
  << <<"G","A","E","M">>, <<"G","A","M","E">>, <<"G","E","A","M">>,
     <<"G","E","M","A">>, <<"G","M","A","E">>, <<"G","M","E","A">>,
     <<"A","G","E","M">>, <<"A","G","M","E">>, <<"A","E","G","M">>,
     <<"A","E","M","G">>, <<"A","M","G","E">>, <<"A","M","E","G">>,
     <<"E","G","A","M">>, <<"E","G","M","A">>, <<"E","A","G","M">>,
     <<"E","A","M","G">>, <<"E","M","G","A">>, <<"E","M","A","G">>,
     <<"M","G","A","E">>, <<"M","G","E","A">>, <<"M","A","G","E">>,
     <<"M","A","E","G">>, <<"M","E","G","A">>, <<"M","E","A","G">> >>

---------------------------------------------------------------------------
(* Values *)

None  == [tag |-> "None"]
Fault == [tag |-> "Fault"]

IsNone(v)  == v.tag = "None"
IsFault(v) == v.tag = "Fault"

\* no memory card, no link cable and no concurrent parse call exists
NoObjects ==
  /\ frames = None
  /\ slots = <<>>
  /\ _active_link_sessions = <<>>
  /\ _transfer_history = <<>>
  /\ now = 0

Min(a, b) == IF a < b THEN a ELSE b
Max(a, b) == IF a > b THEN a ELSE b

W(h, l) == [hi |-> h, lo |-> l]
WErr    == W(-1, -1)

---------------------------------------------------------------------------
(* Byte strings *)

\* bytes(n): n zero bytes
Zeros(n) == [len |-> n, b |-> [k \in {} |-> 0]]

\* the byte string of length n holding f[k] at k (DOMAIN f within 0..n-1)
MkBytes(n, f) == [len |-> n, b |-> f]

\* x == y as byte strings
BytesEq(x, y) ==
  /\ x.len = y.len
  /\ \A k \in 0 .. x.len - 1 :
       (IF k \in DOMAIN x.b THEN x.b[k] ELSE 0) = (IF k \in DOMAIN y.b THEN y.b[k] ELSE 0)

\* buf[i] for 0 <= i; IndexError (-1) at or past the end
ByteAt(buf, i) ==
  IF i >= buf.len THEN -1
  ELSE IF i \in DOMAIN buf.b THEN buf.b[i] ELSE 0

\* buf[lo:hi] for 0 <= lo, 0 <= hi: Python clamps both ends to the length
Slice(buf, lo, hi) ==
  LET a == Min(lo, buf.len)
      e == Min(hi, buf.len)
      n == IF e > a THEN e - a ELSE 0
      keep == {j \in DOMAIN buf.b : j >= a /\ j < e}
  IN [len |-> n, b |-> [k \in {j - a : j \in keep} |-> buf.b[k + a]]]

\* x + y
Concat(x, y) ==
  [len |-> x.len + y.len,
   b   |-> [k \in DOMAIN x.b \cup {j + x.len : j \in DOMAIN y.b} |->
              IF k < x.len THEN x.b[k] ELSE y.b[k - x.len]]]

\* struct.unpack_from('<H', buf, off)[0]; struct.error (-1) when short
unpack_H(buf, off) ==
  IF off + 2 > buf.len THEN -1
  ELSE ByteAt(buf, off) + 256 * ByteAt(buf, off + 1)

\* struct.unpack_from('<I', buf, off)[0]; struct.error (WErr) when short
unpack_I(buf, off) ==
  IF off + 4 > buf.len THEN WErr
  ELSE W(ByteAt(buf, off + 2) + 256 * ByteAt(buf, off + 3),
         ByteAt(buf, off) + 256 * ByteAt(buf, off + 1))

\* struct.unpack_from('>H', buf, off)[0]
unpack_BH(buf, off) ==
  IF off + 2 > buf.len THEN -1
  ELSE 256 * ByteAt(buf, off) + ByteAt(buf, off + 1)

\* struct.unpack_from('>I', buf, off)[0]
unpack_BI(buf, off) ==
  IF off + 4 > buf.len THEN WErr
  ELSE W(256 * ByteAt(buf, off) + ByteAt(buf, off + 1),
         256 * ByteAt(buf, off + 2) + ByteAt(buf, off + 3))

---------------------------------------------------------------------------
(* Bit operations on 16-bit halves and on words *)

RECURSIVE Xor16(_, _)
Xor16(a, b) ==
  IF a = 0 THEN b
  ELSE IF b = 0 THEN a
  ELSE ((a + b) % 2) + 2 * Xor16(a \div 2, b \div 2)

RECURSIVE And16(_, _)
And16(a, b) ==
  IF a = 0 \/ b = 0 THEN 0
  ELSE ((a % 2) * (b % 2)) + 2 * And16(a \div 2, b \div 2)

RECURSIVE Pow2(_)
Pow2(k) == IF k = 0 THEN 1 ELSE 2 * Pow2(k - 1)

\* w ^ v
XorW(w, v) == W(Xor16(w.hi, v.hi), Xor16(w.lo, v.lo))

\* w >> k, 0 <= k <= 31
ShrW(w, k) ==
  IF k >= 16 THEN W(0, w.hi \div Pow2(k - 16))
  ELSE W(w.hi \div Pow2(k),
         (w.lo \div Pow2(k)) + (w.hi % Pow2(k)) * Pow2(16 - k))

\* (w >> k) & mask, for a mask below 2^16
ShrAnd(w, k, mask) == And16(ShrW(w, k).lo, mask)

\* w % n, for 0 < n < 2^15
ModW(w, n) == ((w.hi % n) * (65536 % n) + w.lo) % n

\* a >= b with a, b words, or -1 (hi = -1) for "no save index"
GeW(a, b) == a.hi > b.hi \/ (a.hi = b.hi /\ a.lo >= b.lo)

---------------------------------------------------------------------------
(* RecordCodec, cartridge format: GBASaveParser._parse_pk3 and helpers *)

\* the character codes _read_gba_string collects from `data`: it stops at the
\* end of the data, at the terminator 0xFF, or after max_len codes (the
\* CHAR_TABLE lookup and strip() that turn them into text are not carried)
_read_gba_string(data, offset, max_len) ==
  LET stop == {i \in 0 .. max_len - 1 :
                 offset + i >= data.len \/ ByteAt(data, offset + i) = 255}
      n    == IF stop = {} THEN max_len
              ELSE CHOOSE i \in stop : \A j \in stop : i <= j
  IN [k \in 1 .. n |-> ByteAt(data, offset + k - 1)]

\* byte j (0..3) of the little-endian packing of word w: struct.pack('<I', w)
PackByte(w, j) ==
  CASE j = 0 -> w.lo % 256
    [] j = 1 -> w.lo \div 256
    [] j = 2 -> w.hi % 256
    [] j = 3 -> w.hi \div 256

\* the same sequence with every element evaluated once
Eager(seq) == seq \o <<>>

\* a decryption whose loop test is `i + 4 < len(encrypted)`: it leaves the
\* last word zero
DecryptSkippingLastWord(encrypted, key) ==
  LET n == encrypted.len
      word == Eager([w \in 1 .. n \div 4 |-> XorW(unpack_I(encrypted, 4 * (w - 1)), key)])
  IN MkBytes(n, [k \in 0 .. 4 * (n \div 4) - 5 |-> PackByte(word[(k \div 4) + 1], k % 4)])

\* every whole 32-bit word of `encrypted` is XOR-ed with the one key; the
\* bytes of a trailing partial word stay 0 (bytearray(len) is zero-filled)
_decrypt_pk3_data(encrypted, key) ==
  LET n == encrypted.len
      \* word: the decrypted word of loop offset i = 4 * (w - 1)
      word == Eager([w \in 1 .. n \div 4 |-> XorW(unpack_I(encrypted, 4 * (w - 1)), key)])
  IN MkBytes(n, [k \in 0 .. 4 * (n \div 4) - 1 |-> PackByte(word[(k \div 4) + 1], k % 4)])

\* int(experience ** (1/3)) in double arithmetic: the floor of the cube root,
\* except that n**3 gives n - 1 for every n >= 4 (1/3 rounds below a third)
FloatCbrtInt(x) ==
  LET r == CHOOSE c \in 0 .. 101 : c * c * c <= x /\ x < (c + 1) * (c + 1) * (c + 1)
  IN IF r >= 4 /\ r * r * r = x THEN r - 1 ELSE r

\* experience is a word; 2^20 > 101^3, so anything from 2^20 up clamps to 100
_exp_to_level(species_id, experience) ==
  IF experience.hi = 0 /\ experience.lo = 0 THEN 1
  ELSE IF experience.hi >= 16 THEN 100
  ELSE Max(1, Min(100, FloatCbrtInt(experience.hi * 65536 + experience.lo)))

\* sub_map: letter -> 12-byte block; a letter repeated in the order string
\* keeps the block of its last position, a letter left out has no entry
SubMap(order, decrypted) ==
  [l \in {order[i] : i \in 1 .. 4} |->
     LET last == CHOOSE i \in 1 .. 4 :
                   order[i] = l /\ \A j \in 1 .. 4 : order[j] = l => j <= i
     IN Slice(decrypted, (last - 1) * 12, last * 12)]

\* sub_map.get(letter, bytes(12))
SubGet(sub_map, letter) ==
  IF letter \in DOMAIN sub_map THEN sub_map[letter] ELSE Zeros(12)

\* the substructure order the personality value selects
OrderOf(personality_value) == SUBSTRUCTURE_ORDER[ModW(personality_value, 24) + 1]

\* a species test that forgets the upper limit
RejectOnlyZero(species_id) == species_id = 0

\* `if species_id == 0 or species_id > 386: return None`
RejectSpecies(species_id) == species_id = 0 \/ species_id > 386

\* an IV extraction with a 4-bit mask
UnpackIvs4Bit(iv_egg_ability) ==
  [i \in 1 .. 6 |-> ShrAnd(iv_egg_ability, 5 * (i - 1), 15)]

\* hp, atk, def, spe, spa, spd: (iv_egg_ability >> 0, 5, .. 25) & 0x1F
UnpackIvs(iv_egg_ability) ==
  [i \in 1 .. 6 |-> ShrAnd(iv_egg_ability, 5 * (i - 1), 31)]

\* PK3Pokemon; nickname and ot_name are carried as character codes (an empty
\* one stands for its default), the names looked up in the static tables
\* (species, nature, moves, item, gender, met game) are not carried
\* a shiny test that lets the value 8 through
ShinyUpTo8(shiny_val) == shiny_val <= 8

\* `is_shiny = shiny_val < 8`
IsShiny(shiny_val) == shiny_val < 8

_parse_pk3(data) ==
  IF data.len < PK3_HEADER_SIZE THEN None
  ELSE
    LET personality_value == unpack_I(data, 0)
        ot_id_full        == unpack_I(data, 4)
        ot_id             == ot_id_full.lo
        ot_secret_id      == ShrAnd(ot_id_full, 16, 65535)
        nickname          == _read_gba_string(data, 8, 10)
        language          == IF data.len > 18 THEN ByteAt(data, 18) ELSE 2
        ot_name           == _read_gba_string(data, 20, 7)
        markings          == IF data.len > 27 THEN ByteAt(data, 27) ELSE 0
        checksum          == IF data.len > 30 THEN unpack_H(data, 28) ELSE 0
    IN
    IF data.len < PK3_HEADER_SIZE + PK3_DATA_SIZE THEN None
    ELSE
      LET encrypted == Slice(data, PK3_HEADER_SIZE, PK3_HEADER_SIZE + PK3_DATA_SIZE)
          key       == XorW(personality_value, ot_id_full)
          decrypted == _decrypt_pk3_data(encrypted, key)
          sub_map   == SubMap(OrderOf(personality_value), decrypted)
          g == SubGet(sub_map, "G")
          species_id == unpack_H(g, 0)
      IN
      IF species_id = -1 THEN None
      ELSE IF RejectSpecies(species_id) THEN None
      ELSE
        LET item_id    == unpack_H(g, 2)
            experience == unpack_I(g, 4)
            pp_bonuses == ByteAt(g, 8)
            friendship == ByteAt(g, 9)
            unknown_g  == unpack_H(g, 10)
            a == SubGet(sub_map, "A")
            move_ids == [i \in 1 .. 4 |-> unpack_H(a, 2 * (i - 1))]
            move_pp  == [i \in 1 .. 4 |-> ByteAt(a, 7 + i)]
            e == SubGet(sub_map, "E")
            evs     == [i \in 1 .. 6 |-> ByteAt(e, i - 1)]
            contest == [i \in 1 .. 6 |-> ByteAt(e, 5 + i)]
            m == SubGet(sub_map, "M")
            pokerus           == ByteAt(m, 0)
            met_location      == ByteAt(m, 1)
            origins_info      == unpack_H(m, 2)
            iv_egg_ability    == unpack_I(m, 4)
            ribbons_obedience == unpack_I(m, 8)
            status_offset == PK3_HEADER_SIZE + PK3_DATA_SIZE
            has_status == data.len >= status_offset + PK3_STATUS_SIZE
            st == Slice(data, status_offset, status_offset + PK3_STATUS_SIZE)
            status_condition == IF has_status THEN unpack_I(st, 0) ELSE W(0, 0)
            level == IF has_status THEN ByteAt(st, 4)
                     ELSE _exp_to_level(species_id, experience)
            pokerus_days == IF has_status THEN ByteAt(st, 5) ELSE 0
            \* current_hp, total_hp, attack, defense, speed, sp_attack, sp_defense
            stats == [i \in 1 .. 7 |->
                        IF has_status THEN unpack_H(st, 4 + 2 * i) ELSE 0]
            pv_high == ShrAnd(personality_value, 16, 65535)
            pv_low  == And16(personality_value.lo, 65535)
            shiny_val == Xor16(Xor16(Xor16(ot_id, ot_secret_id), pv_high), pv_low)
            ints  == {item_id, pp_bonuses, friendship, unknown_g, pokerus,
                      met_location, origins_info, level, pokerus_days,
                      language, markings, checksum}
                     \cup {move_ids[i] : i \in 1 .. 4}
                     \cup {move_pp[i] : i \in 1 .. 4}
                     \cup {evs[i] : i \in 1 .. 6}
                     \cup {contest[i] : i \in 1 .. 6}
                     \cup {stats[i] : i \in 1 .. 7}
            words == {personality_value, ot_id_full, experience, iv_egg_ability,
                      ribbons_obedience, status_condition}
      IN
      \* except (struct.error, IndexError): return None
      IF -1 \in ints \/ WErr \in words THEN None
      ELSE
        [tag |-> "PK3Pokemon",
         personality_value |-> personality_value,
         ot_id |-> ot_id, ot_secret_id |-> ot_secret_id,
         nickname |-> nickname, ot_name |-> ot_name,
         language |-> language, markings |-> markings, checksum |-> checksum,
         species_id |-> species_id, item_id |-> item_id,
         experience |-> experience, pp_bonuses |-> pp_bonuses,
         friendship |-> friendship, unknown_growth |-> unknown_g,
         move_ids |-> move_ids, move_pp |-> move_pp,
         evs |-> evs, contest |-> contest,
         pokerus |-> pokerus, met_location |-> met_location,
         origins_info |-> origins_info, iv_egg_ability |-> iv_egg_ability,
         ribbons_obedience |-> ribbons_obedience,
         status_condition |-> status_condition, level |-> level,
         pokerus_days |-> pokerus_days, stats |-> stats,
         nature |-> ModW(personality_value, 25),
         is_shiny |-> IsShiny(shiny_val),
         is_egg |-> ShrAnd(iv_egg_ability, 30, 1) # 0,
         ability_slot |-> ShrAnd(iv_egg_ability, 31, 1),
         ivs |-> UnpackIvs(iv_egg_ability),
         met_game_id |-> ShrAnd(W(0, origins_info), 7, 15),
         met_level |-> And16(origins_info, 127),
         is_fateful |-> ShrAnd(ribbons_obedience, 31, 1) # 0]

---------------------------------------------------------------------------
(* SectionAssembler and SlotSelector: GBASaveParser._parse_slot,           *)
(* _get_save_index, _pick_best_slot.  A dict {section_id: section} is      *)
(* [tag |-> "dict", d |-> function on the ids present].                    *)

\* the loop guard of _parse_slot: the section lies inside the data
SectionFits(data, section_end) == ~(section_end > data.len)

\* a filter that keeps every section id
AnySectionId(section_id) == TRUE

\* a filter that also keeps section id 14
IdAtMost14(section_id) == ~(section_id > 14)

\* a section is kept unless `section_id > 13`
ValidSectionId(section_id) == ~(section_id > 13)

\* a dict in which the first section stored under an id stays
FirstStored(kept, section_id, id) ==
  CHOOSE i \in kept :
    section_id[i + 1] = id /\ \A j \in kept : section_id[j + 1] = id => i <= j

\* `sections[section_id] = section` in loop order: of the kept loop indexes
\* with this id the last one is the entry that remains
LastStored(kept, section_id, id) ==
  CHOOSE i \in kept :
    section_id[i + 1] = id /\ \A j \in kept : section_id[j + 1] = id => j <= i

_parse_slot(data, offset) ==
  LET section_start(i) == offset + i * GBA_SECTION_SIZE
      section_end(i)   == section_start(i) + GBA_SECTION_SIZE
      \* the loop breaks at the first section that does not fit
      broke   == {i \in 0 .. GBA_SECTION_COUNT - 1 : ~SectionFits(data, section_end(i))}
      visited == {i \in 0 .. GBA_SECTION_COUNT - 1 : \A j \in broke : i < j}
      \* section and section_id of loop index i, at position i + 1
      section == Eager([k \in 1 .. GBA_SECTION_COUNT |->
                          Slice(data, section_start(k - 1), section_end(k - 1))])
      section_id == Eager([k \in 1 .. GBA_SECTION_COUNT |->
                             unpack_H(section[k], GBA_SECTION_ID_OFF)])
      kept == {i \in visited : ValidSectionId(section_id[i + 1])}
      ids  == {section_id[i + 1] : i \in kept}
      \* sections[section_id] = section: a later section replaces an earlier one
      last(id) == LastStored(kept, section_id, id)
  IN IF \E i \in visited : section_id[i + 1] = -1 THEN Fault   \* struct.error, no handler
     ELSE IF ids = {} THEN None
     ELSE [tag |-> "dict", d |-> [id \in ids |-> section[last(id) + 1]]]

\* the sum of f[lo .. hi]
RECURSIVE SumRange(_, _, _)
SumRange(f, lo, hi) ==
  IF lo > hi THEN 0
  ELSE IF lo = hi THEN f[lo]
  ELSE LET mid == (lo + hi) \div 2
       IN SumRange(f, lo, mid) + SumRange(f, mid + 1, hi)

\* `total` of _verify_section_checksum: the unbounded sum of the words
\* data_area[i : i + 4] with i + 4 <= len(data_area), kept as the sum of their
\* upper halves (hi) and the sum of their lower halves (lo):
\* total = 65536 * hi + lo
WordTotal(data_area) ==
  LET n    == data_area.len \div 4
      word == Eager([w \in 1 .. n |-> unpack_I(data_area, 4 * (w - 1))])
  IN [hi |-> SumRange([w \in 1 .. n |-> word[w].hi], 1, n),
      lo |-> SumRange([w \in 1 .. n |-> word[w].lo], 1, n)]

\* a fold that adds the carry out of bit 15 back in
FoldEndAround(total) ==
  LET upper == (total.hi + total.lo \div 65536) % 65536
      lower == total.lo % 65536
      t     == upper + lower
  IN (t % 65536) + (t \div 65536)

\* a fold that forgets the upper half
FoldLowOnly(total) == total.lo % 65536

\* ((total >> 16) + (total & 0xFFFF)) & 0xFFFF
Fold(total) ==
  ((total.hi + total.lo \div 65536) + (total.lo % 65536)) % 65536

\* `checksum` of _verify_section_checksum
ComputedChecksum(section) == Fold(WordTotal(Slice(section, 0, GBA_FOOTER_OFFSET)))

\* _verify_section_checksum; struct.error gives False
_verify_section_checksum(section) ==
  LET stored_checksum == unpack_H(section, GBA_CHECKSUM_OFF)
  IN IF stored_checksum = -1 THEN FALSE
     ELSE ComputedChecksum(section) = stored_checksum

\* an index of 0 for a slot that has no section 0
IndexZeroWithoutSection0(sections) ==
  IF 0 \notin DOMAIN sections.d THEN W(0, 0)
  ELSE unpack_I(sections.d[0], GBA_SAVE_INDEX_OFF)

\* -1 (as a word) when the slot has no section 0 or the read fails
_get_save_index(sections) ==
  IF 0 \notin DOMAIN sections.d THEN WErr
  ELSE unpack_I(sections.d[0], GBA_SAVE_INDEX_OFF)

\* a comparison that gives ties to the second slot
StrictlyHigher(idx_a, idx_b) ==
  idx_a.hi > idx_b.hi \/ (idx_a.hi = idx_b.hi /\ idx_a.lo > idx_b.lo)

\* slot_a if idx_a >= idx_b else slot_b
PreferA(idx_a, idx_b) == GeW(idx_a, idx_b)

\* a selector that never looks at the second slot
PickFirstOnly(slot_a, slot_b) == IF IsNone(slot_a) THEN "none" ELSE "a"

\* which of its arguments _pick_best_slot returns: "a", "b" or "none" (None);
\* parse_save_file tells them apart by identity, `sections is slot_a`
_pick_best_slot(slot_a, slot_b) ==
  IF IsNone(slot_a) /\ IsNone(slot_b) THEN "none"
  ELSE IF IsNone(slot_a) THEN "b"
  ELSE IF IsNone(slot_b) THEN "a"
  ELSE IF PreferA(_get_save_index(slot_a), _get_save_index(slot_b)) THEN "a" ELSE "b"


---------------------------------------------------------------------------
(* PartyBoxExtractor: _parse_trainer_info, _detect_game, _parse_party,     *)
(* _parse_pc_boxes                                                         *)

RECURSIVE PopCount(_)
PopCount(x) == IF x = 0 THEN 0 ELSE (x % 2) + PopCount(x \div 2)

_detect_game(sections) ==
  IF 0 \notin DOMAIN sections.d THEN "UNKNOWN"
  ELSE LET sec0 == sections.d[0]
       IN IF Cardinality(DOMAIN sections.d) = GBA_SECTION_COUNT
             /\ sec0.len > 172 /\ ByteAt(sec0, 172) # 0 THEN "EMERALD"
          ELSE IF Cardinality(DOMAIN sections.d) = GBA_SECTION_COUNT
             /\ sec0.len > 197 /\ ByteAt(sec0, 197) # 0 THEN "FIRERED"
          ELSE "RUBY"

\* GBASaveInfo; trainer_name is carried as character codes, the game as the
\* name of its GBAGame member (region and game_name follow from it)
_parse_trainer_info(sections, slot_used) ==
  IF 0 \notin DOMAIN sections.d THEN None
  ELSE
    LET sec == sections.d[0]
        trainer_name == _read_gba_string(sec, 0, 7)
        trainer_id == unpack_H(sec, 10)
        secret_id  == unpack_H(sec, 12)
        play_h     == unpack_H(sec, 14)
        play_m     == ByteAt(sec, 16)
        play_s     == ByteAt(sec, 17)
        money      == IF sec.len > 660 THEN unpack_I(sec, 656) ELSE W(0, 0)
        badges     == IF sec.len > 152 THEN ByteAt(sec, 152) ELSE 0
    IN \* except (struct.error, IndexError): return None
       IF -1 \in {trainer_id, secret_id, play_h, play_m, play_s, badges}
          \/ money = WErr THEN None
       ELSE [tag |-> "GBASaveInfo", game |-> _detect_game(sections),
             trainer_name |-> trainer_name,
             trainer_id |-> trainer_id, secret_id |-> secret_id,
             play_time_h |-> play_h, play_time_m |-> play_m, play_time_s |-> play_s,
             money |-> money, badges |-> PopCount(badges),
             slot_used |-> slot_used]

GBAParty(pokemon) == [tag |-> "GBAParty", pokemon |-> pokemon, count |-> Len(pokemon)]

\* a loop that stops at the first record that fails to decode
KeptUntilBad(parsed) ==
  LET bad == {k \in 1 .. Len(parsed) : IsNone(parsed[k])}
      n   == IF bad = {} THEN Len(parsed)
             ELSE (CHOOSE k \in bad : \A j \in bad : k <= j) - 1
  IN SubSeq(Eager(parsed), 1, n)

\* the records kept from a run of decode results, in order:
\* `if poke and poke.species_id > 0: pokemon.append(poke)`
Kept(parsed) == SelectSeq(Eager(parsed), LAMBDA p : ~IsNone(p) /\ p.species_id > 0)

\* a clamp with the limit off by one
ClampCountTo7(count) == IF count.hi > 0 \/ count.lo > 7 THEN 7 ELSE count.lo

\* count = max(0, min(6, count))
ClampCount(count) == IF count.hi > 0 \/ count.lo > 6 THEN 6 ELSE count.lo

_parse_party(sections) ==
  IF 1 \notin DOMAIN sections.d THEN GBAParty(<<>>)
  ELSE
    LET sec == sections.d[1]
        raw == unpack_I(sec, PARTY_COUNT_OFFSET)
    IN IF raw = WErr THEN GBAParty(<<>>)
       ELSE
         LET count == ClampCount(raw)
             offset(i) == PARTY_DATA_OFFSET + i * PK3_SIZE
             \* the loop breaks at the first record window past the section
             broke == {i \in 0 .. count - 1 : offset(i) + PK3_SIZE > sec.len}
             n     == IF broke = {} THEN count
                      ELSE CHOOSE i \in broke : \A j \in broke : i <= j
             parsed == [k \in 1 .. n |->
                          _parse_pk3(Slice(sec, offset(k - 1), offset(k - 1) + PK3_SIZE))]
         IN GBAParty(Kept(parsed))

\* a buffer that takes the sections present among first..13 from 13 down
RECURSIVE PcDataDescending(_, _)
PcDataDescending(sections, first) ==
  IF first >= GBA_SECTION_COUNT THEN Zeros(0)
  ELSE IF first \in DOMAIN sections.d
       THEN Concat(PcDataDescending(sections, first + 1),
                   Slice(sections.d[first], 0, GBA_FOOTER_OFFSET))
       ELSE PcDataDescending(sections, first + 1)

\* pc_data: the data areas of the sections present among first..13, in id order
RECURSIVE PcData(_, _)
PcData(sections, first) ==
  IF first >= GBA_SECTION_COUNT THEN Zeros(0)
  ELSE IF first \in DOMAIN sections.d
       THEN Concat(Slice(sections.d[first], 0, GBA_FOOTER_OFFSET),
                   PcData(sections, first + 1))
       ELSE PcData(sections, first + 1)

BOX_DATA_START  == 4
BOX_NAMES_START == 33604
BOX_NAME_LEN    == 9

\* Text.  A Python str made of CHAR_TABLE characters is carried as the
\* sequence of their codes: the two codes of "'" and the two of '"' as the
\* first of each, '?' (0xAC) for a byte outside the table.
CHAR_TABLE_KEYS == {0} \cup (161 .. 174) \cup (177 .. 184) \cup (187 .. 245) \cup {255}
CharOf(byte) ==
  IF byte \notin CHAR_TABLE_KEYS THEN 172
  ELSE IF byte = 178 THEN 177
  ELSE IF byte = 180 THEN 179
  ELSE byte

\* str.strip(): the space (code 0) is the only whitespace of the table
Strip(text) ==
  LET inked == {k \in 1 .. Len(text) : text[k] # 0}
  IN IF inked = {} THEN <<>>
     ELSE SubSeq(text, CHOOSE k \in inked : \A j \in inked : k <= j,
                       CHOOSE k \in inked : \A j \in inked : j <= k)

\* the str _read_gba_string returns for the codes it collected
GbaText(codes) == Strip([k \in 1 .. Len(codes) |-> CharOf(codes[k])])

\* f"Box {n}" for n in 1..99
BoxN(n) ==
  <<189, 234, 243, 0>> \o (IF n < 10 THEN <<161 + n>> ELSE <<161 + (n \div 10), 161 + (n % 10)>>)

\* a box name left as it was read, empty or not
NameAsRead(box_name, box_idx) == box_name

\* `if not box_name: box_name = f"Box {box_idx + 1}"`
NameOrDefault(box_name, box_idx) ==
  IF box_name = <<>> THEN BoxN(box_idx + 1) ELSE box_name

\* the name of box box_idx
BoxName(pc_data, box_idx) ==
  LET name_offset == BOX_NAMES_START + box_idx * BOX_NAME_LEN
  IN NameOrDefault(IF name_offset + BOX_NAME_LEN <= pc_data.len
                   THEN GbaText(_read_gba_string(pc_data, name_offset, BOX_NAME_LEN))
                   ELSE BoxN(box_idx + 1),
                   box_idx)

\* one GBABox
ParseBox(pc_data, box_idx) ==
  LET poke_offset(slot) == BOX_DATA_START + (box_idx * PC_BOX_SIZE + slot) * PC_POKEMON_SIZE
      broke == {s \in 0 .. PC_BOX_SIZE - 1 : poke_offset(s) + PC_POKEMON_SIZE > pc_data.len}
      n     == IF broke = {} THEN PC_BOX_SIZE
               ELSE CHOOSE s \in broke : \A j \in broke : s <= j
      pk3_padded(slot) ==
        Concat(Slice(pc_data, poke_offset(slot), poke_offset(slot) + PC_POKEMON_SIZE),
               Zeros(PK3_SIZE - PC_POKEMON_SIZE))
      parsed == [k \in 1 .. n |-> _parse_pk3(pk3_padded(k - 1))]
  IN [tag |-> "GBABox", box_index |-> box_idx, name |-> BoxName(pc_data, box_idx),
      pokemon |-> Kept(parsed)]

_parse_pc_boxes(sections) ==
  LET pc_data == PcData(sections, SECTION_PC_BUFFER_A)
  IN IF pc_data.len = 0 THEN <<>>
     ELSE [k \in 1 .. PC_BOX_COUNT |-> ParseBox(pc_data, k - 1)]

\* parse_save_file from `slot_used = ...` on: the trainer info, then the
\* party and the boxes of the chosen slot
SaveOf(sections, slot_used) ==
  LET info == _parse_trainer_info(sections, slot_used)
  IN IF IsNone(info) THEN None
     ELSE [tag |-> "GBASave", info |-> info,
           party |-> _parse_party(sections),
           boxes |-> _parse_pc_boxes(sections)]

\* parse_save_file from `sections = self._pick_best_slot(slot_a, slot_b)` on;
\* an exception raised by _parse_slot has no handler
\* `slot_used = 0 if sections is slot_a else 1`, then the parse of `sections`
ParseSections(which, slot_a, slot_b) ==
  IF which = "none" THEN None
  ELSE SaveOf(IF which = "a" THEN slot_a ELSE slot_b, IF which = "a" THEN 0 ELSE 1)

PickAndParse(slot_a, slot_b) ==
  IF IsFault(slot_a) \/ IsFault(slot_b) THEN Fault
  ELSE ParseSections(_pick_best_slot(slot_a, slot_b), slot_a, slot_b)

\* what parse_save_file returns (ret) together with its two locals
Returned(slot_a, slot_b) ==
  [ret |-> PickAndParse(slot_a, slot_b), slot_a |-> slot_a, slot_b |-> slot_b]

\* a test that reads the second slot whenever two slots fit in the buffer
SecondSlotFits(data) == data.len >= 2 * GBA_SLOT_SIZE

\* `if len(data) >= GBA_SAVE_SIZE` of the slot_b line
SecondSlotPresent(data) == data.len >= GBA_SAVE_SIZE

\* parse_save_file once the file's bytes are read
parse_save_file(data) ==
  IF data.len < GBA_SAVE_SIZE /\ data.len < GBA_SLOT_SIZE
  THEN [ret |-> None, slot_a |-> None, slot_b |-> None]
  ELSE Returned(_parse_slot(data, 0),
                IF SecondSlotPresent(data) THEN _parse_slot(data, GBA_SLOT_SIZE)
                ELSE None)

---------------------------------------------------------------------------
(* Memory-card export parser: GCIHeader and GCIParser (memory_card.py)     *)

GCI_HEADER_SIZE      == 64
COLOSSEUM_PARTY_SIZE == 6
XD_PARTY_SIZE        == 6
COLO_TRAINER_NAME    == 120
COLO_TRAINER_ID      == 136
COLO_PLAY_TIME       == 140
COLO_PARTY           == 1176
COLO_POKE_SIZE       == 312
XD_TRAINER_NAME      == 120
XD_TRAINER_ID        == 136
XD_PLAY_TIME         == 140
XD_PARTY             == 1192
XD_POKE_SIZE         == 406

\* the bytes buf[lo:hi] as a tuple, for lo <= hi <= len(buf)
BytesOf(buf, lo, hi) == [k \in 1 .. hi - lo |-> ByteAt(buf, lo + k - 1)]

\* GCIHeader.from_bytes: the header, or the exception it raises (filename,
\* maker_code and raw_header are not carried)
from_bytes(data) ==
  IF data.len < GCI_HEADER_SIZE THEN [tag |-> "ValueError"]
  ELSE LET modified_time == unpack_BI(data, 40)
           block_count   == unpack_BH(data, 56)
           file_size     == unpack_BI(data, 60)
       IN IF modified_time = WErr \/ block_count = -1 \/ file_size = WErr
          THEN [tag |-> "struct.error"]
          ELSE [tag |-> "GCIHeader", game_id |-> BytesOf(data, 0, 4),
                modified_time |-> modified_time, block_count |-> block_count,
                file_size |-> file_size]

\* b'GC6E' and the other game ids, as byte tuples
GC6(region) == <<71, 67, 54, region>>
GXX(region) == <<71, 88, 88, region>>
GPX(region) == <<71, 80, 88, region>>

\* the keys of KNOWN_GAME_IDS
KNOWN_GAME_IDS ==
  {GC6(69), GC6(74), GC6(80), GXX(69), GXX(74), GXX(80), GPX(69), GPX(74)}

\* a detection that takes every id it does not know for Colosseum
DetectOrColosseum(game_id) ==
  IF game_id \in {GXX(69), GXX(74), GXX(80)} THEN "XD_GALE"
  ELSE IF game_id \in {GPX(69), GPX(74)} THEN "POKEMON_BOX"
  ELSE "COLOSSEUM"

\* GCIHeader.detected_game (regions E = 69, J = 74, P = 80)
detected_game(game_id) ==
  IF game_id \in {GC6(69), GC6(74), GC6(80)} THEN "COLOSSEUM"
  ELSE IF game_id \in {GXX(69), GXX(74), GXX(80)} THEN "XD_GALE"
  ELSE IF game_id \in {GPX(69), GPX(74)} THEN "POKEMON_BOX"
  ELSE "UNKNOWN"

\* the characters _gc_str collects, as codes ('?' is 63)
_gc_str(data, offset, max_len) ==
  LET pos(i) == offset + i * 2
      stop == {i \in 0 .. max_len - 1 :
                 pos(i) + 1 >= data.len \/ unpack_BH(data, pos(i)) = 0}
      n    == IF stop = {} THEN max_len
              ELSE CHOOSE i \in stop : \A j \in stop : i <= j
      char(code) == IF code \in 65 .. 90 \/ code \in 97 .. 122 \/ code \in 48 .. 57
                    THEN code ELSE 63
  IN [k \in 1 .. n |-> char(unpack_BH(data, pos(k - 1)))]

\* `if sid == 0 or sid > 386: return None`
NATURES ==
  <<"Hardy", "Lonely", "Brave", "Adamant", "Naughty",
    "Bold", "Docile", "Relaxed", "Impish", "Lax",
    "Timid", "Hasty", "Serious", "Jolly", "Naive",
    "Modest", "Mild", "Quiet", "Bashful", "Rash",
    "Calm", "Gentle", "Sassy", "Careful", "Quirky">>

\* a shadow level read whatever the flag
ShadowLevelUnguarded(data, is_shadow) ==
  IF data.len > 17 THEN ByteAt(data, 17) ELSE 0

\* `data[0x11] if (is_shadow and len(data) > 0x11) else 0`
ShadowLevelByte(data, is_shadow) ==
  IF is_shadow /\ data.len > 17 THEN ByteAt(data, 17) ELSE 0

GCI_RejectSpecies(sid) == sid = 0 \/ sid > 386

\* GCIParser._parse_pokemon; a SavedPokemon with its fields read from the
\* record (an empty nickname stands for the species name)
GCI_parse_pokemon(data, idx) ==
  IF data.len < 80 THEN None
  ELSE
    LET sid == unpack_BH(data, 0)
    IN IF sid = -1 THEN None
       ELSE IF GCI_RejectSpecies(sid) THEN None
       ELSE
         LET level     == Max(1, Min(100, IF data.len > 4 THEN ByteAt(data, 4) ELSE 1))
             nature    == NATURES[((IF data.len > 8 THEN ByteAt(data, 8) ELSE 0) % 25) + 1]
             is_shadow == IF data.len > 16 THEN ByteAt(data, 16) # 0 ELSE FALSE
             shadow_level == Max(0, Min(5, ShadowLevelByte(data, is_shadow)))
             nickname  == _gc_str(data, 24, 10)
             iv_raw    == unpack_BI(data, 56)
             ivs == [j \in 1 .. 6 |->
                       IF data.len >= 60 THEN ShrAnd(iv_raw, 25 - (j - 1) * 5, 31) ELSE 0]
             off(m) == 64 + m * 2
             mid == [m \in 1 .. 4 |->
                       IF off(m - 1) + 2 <= data.len THEN unpack_BH(data, off(m - 1)) ELSE 0]
             moves == SelectSeq(Eager(mid), LAMBDA x : x > 0)
         IN \* except (struct.error, IndexError): return None
            IF (data.len >= 60 /\ iv_raw = WErr) \/ (\E m \in 1 .. 4 : mid[m] = -1)
            THEN None
            ELSE [tag |-> "SavedPokemon", slot_index |-> idx, species_id |-> sid,
                  nickname |-> nickname, level |-> level, nature |-> nature,
                  is_shadow |-> is_shadow, shadow_level |-> shadow_level,
                  moves |-> moves,
                  hp_iv |-> ivs[1], atk_iv |-> ivs[2], def_iv |-> ivs[3],
                  spa_iv |-> ivs[4], spd_iv |-> ivs[5], spe_iv |-> ivs[6]]

\* GCIParser._parse_party
GCI_parse_party(data, offset, count, poke_size) ==
  LET start(i) == offset + i * poke_size
      broke == {i \in 0 .. count - 1 : start(i) + poke_size > data.len}
      n     == IF broke = {} THEN count
               ELSE CHOOSE i \in broke : \A j \in broke : i <= j
      parsed == [k \in 1 .. n |->
                   GCI_parse_pokemon(Slice(data, start(k - 1), start(k - 1) + poke_size), k - 1)]
  IN Kept(parsed)

\* "Trainer" and "Unknown" in the codes _gc_str produces
TrainerText == <<84, 114, 97, 105, 110, 101, 114>>
UnknownText == <<85, 110, 107, 110, 111, 119, 110>>

\* name, tid, ph, pm; a struct.error leaves what was not yet assigned at its
\* default
_trainer_info(data, name_off, id_off, time_off) ==
  LET read   == IF data.len > name_off + 16 THEN _gc_str(data, name_off, 8) ELSE <<>>
      name   == IF read = <<>> THEN TrainerText ELSE read
      id_w   == IF data.len > id_off + 4 THEN unpack_BI(data, id_off) ELSE W(0, 0)
      t      == IF data.len > time_off + 4 THEN unpack_BI(data, time_off) ELSE W(0, 0)
      got_t  == id_w # WErr /\ t # WErr
  IN [name |-> name,
      tid  |-> IF id_w = WErr THEN 0 ELSE id_w.lo,
      ph   |-> IF got_t THEN t.hi ELSE 0,
      pm   |-> IF got_t THEN t.lo \div 256 ELSE 0]

\* MemoryCardSlot (raw_data, boxes and purif_chamber are not carried)
MemoryCardSlot(game, info, party, checksum_ok) ==
  [tag |-> "MemoryCardSlot", slot_index |-> 0, status |-> "OCCUPIED", game |-> game,
   trainer_name |-> info.name, trainer_id |-> info.tid,
   play_time_h |-> info.ph, play_time_m |-> info.pm,
   party |-> party, checksum_ok |-> checksum_ok]

\* a Colosseum parse that reads the party where XD keeps it
ColosseumAtXdOffsets(data) ==
  [tag |-> "MemoryCardSlot", slot_index |-> 0, status |-> "OCCUPIED", game |-> "COLOSSEUM",
   trainer_name |-> TrainerText, trainer_id |-> 0, play_time_h |-> 0, play_time_m |-> 0,
   party |-> GCI_parse_party(data, XD_PARTY, COLOSSEUM_PARTY_SIZE, XD_POKE_SIZE),
   checksum_ok |-> TRUE]

_parse_colosseum(data) ==
  MemoryCardSlot("COLOSSEUM",
                 _trainer_info(data, COLO_TRAINER_NAME, COLO_TRAINER_ID, COLO_PLAY_TIME),
                 GCI_parse_party(data, COLO_PARTY, COLOSSEUM_PARTY_SIZE, COLO_POKE_SIZE),
                 TRUE)

_parse_xd(data) ==
  MemoryCardSlot("XD_GALE",
                 _trainer_info(data, XD_TRAINER_NAME, XD_TRAINER_ID, XD_PLAY_TIME),
                 GCI_parse_party(data, XD_PARTY, XD_PARTY_SIZE, XD_POKE_SIZE),
                 TRUE)

_parse_save(header, data) ==
  LET game == detected_game(header.game_id)
  IN IF game = "COLOSSEUM" THEN _parse_colosseum(data)
     ELSE IF game = "XD_GALE" THEN _parse_xd(data)
     ELSE MemoryCardSlot(game, [name |-> UnknownText, tid |-> 0, ph |-> 0, pm |-> 0],
                         <<>>, FALSE)

\* parse_gci_file once the file's bytes are read: the pair (header, slot)
parse_gci_file(raw) ==
  IF raw.len < GCI_HEADER_SIZE THEN [tag |-> "pair", header |-> None, slot |-> None]
  ELSE
    LET header == from_bytes(Slice(raw, 0, GCI_HEADER_SIZE))
    IN \* except (ValueError, struct.error): return None, None
       IF header.tag # "GCIHeader" THEN [tag |-> "pair", header |-> None, slot |-> None]
       ELSE [tag |-> "pair", header |-> header,
             slot |-> _parse_save(header, Slice(raw, GCI_HEADER_SIZE, raw.len))]

---------------------------------------------------------------------------
(* TransferEvaluator: PK3Pokemon.transfer_compatibility,                   *)
(* GBAToGCNTransfer.check_transfer_compatibility (gba_support.py) and      *)
(* GBACompatibilityChecker.check_gba_to_gcn, check_gcn_to_gba              *)
(* (trading/gba_trading.py).  A returned (verdict, reason) pair is a       *)
(* record with fields verdict and reason; a reason is the sequence of the  *)
(* pieces of its text.                                                     *)

\* class TransferCompatibility
COMPATIBLE      == "compatible"
INCOMPATIBLE    == "incompatible"
REQUIRES_PURIFY == "requires_purify"
VERSION_LOCKED  == "version_locked"

\* PK3Pokemon.transfer_compatibility
transfer_compatibility(self) ==
  IF self.is_egg THEN INCOMPATIBLE
  ELSE IF self.species_id = 0 \/ self.species_id > 386 THEN INCOMPATIBLE
  ELSE COMPATIBLE

\* hp_ev + atk_ev + def_ev + spe_ev + spa_ev + spd_ev
TotalEvs(pokemon) ==
  pokemon.evs[1] + pokemon.evs[2] + pokemon.evs[3]
    + pokemon.evs[4] + pokemon.evs[5] + pokemon.evs[6]

check_transfer_compatibility(pokemon) ==
  IF pokemon.is_egg THEN
    [tag |-> "verdict", verdict |-> INCOMPATIBLE, reason |-> <<"Eggs cannot be transferred">>]
  ELSE IF pokemon.species_id = 0 \/ pokemon.species_id > 386 THEN
    [tag |-> "verdict", verdict |-> INCOMPATIBLE, reason |-> <<"Invalid species">>]
  ELSE IF pokemon.level > 100 \/ pokemon.level < 1 THEN
    [tag |-> "verdict", verdict |-> INCOMPATIBLE, reason |-> <<"Invalid level">>]
  ELSE IF TotalEvs(pokemon) > 510 THEN
    [tag |-> "verdict", verdict |-> INCOMPATIBLE, reason |-> <<"EVs exceed maximum (510)">>]
  ELSE
    [tag |-> "verdict", verdict |-> COMPATIBLE, reason |-> <<"Compatible">>]

\* GBASave.all_pokemon: the party, then box after box
RECURSIVE ConcatAll(_)
ConcatAll(lists) ==
  IF lists = <<>> THEN <<>> ELSE Head(lists) \o ConcatAll(Tail(lists))

all_pokemon(self) ==
  self.party.pokemon \o ConcatAll([b \in 1 .. Len(self.boxes) |-> self.boxes[b].pokemon])

\* GBASave.transferable_pokemon
transferable_pokemon(self) ==
  SelectSeq(all_pokemon(self), LAMBDA p : transfer_compatibility(p) = COMPATIBLE)

\* the (location, poke) pairs of one enumerate loop; a location f"party_{i}"
\* is <<"party", i>> and f"box_{box_index}_{i}" is <<"box", box_index, i>>
Located(prefix, pokemon) ==
  SelectSeq([i \in 1 .. Len(pokemon) |-> [location |-> prefix \o <<i - 1>>, poke |-> pokemon[i]]],
            LAMBDA e : transfer_compatibility(e.poke) = COMPATIBLE)

get_transferable_pokemon(save) ==
  Located(<<"party">>, save.party.pokemon)
  \o ConcatAll([b \in 1 .. Len(save.boxes) |->
                  Located(<<"box", save.boxes[b].box_index>>, save.boxes[b].pokemon)])

ShadowToGba    == <<"Shadow Pokemon cannot be transferred to GBA">>
ShadowUnpurified == <<"Shadow Pokemon must be purified before transferring to GBA">>

check_gba_to_gcn(species_id, is_shadow, is_egg, level, total_evs) ==
  IF is_egg THEN
    [tag |-> "verdict", verdict |-> FALSE, reason |-> <<"Eggs cannot be transferred via link cable">>]
  ELSE IF is_shadow THEN
    [tag |-> "verdict", verdict |-> FALSE, reason |-> ShadowToGba]
  ELSE IF species_id = 0 \/ species_id > 386 THEN
    [tag |-> "verdict", verdict |-> FALSE, reason |-> <<"Species #", species_id, " is not available in Gen 3">>]
  ELSE IF level < 1 \/ level > 100 THEN
    [tag |-> "verdict", verdict |-> FALSE, reason |-> <<"Invalid level: ", level>>]
  ELSE IF total_evs > 510 THEN
    [tag |-> "verdict", verdict |-> FALSE, reason |-> <<"Total EVs (", total_evs, ") exceed maximum (510)">>]
  ELSE
    [tag |-> "verdict", verdict |-> TRUE, reason |-> <<"Compatible">>]

check_gcn_to_gba(species_id, is_shadow, is_egg, level) ==
  IF is_shadow THEN
    [tag |-> "verdict", verdict |-> FALSE, reason |-> ShadowUnpurified]
  ELSE IF is_egg THEN
    [tag |-> "verdict", verdict |-> FALSE, reason |-> <<"Eggs cannot be transferred via link cable">>]
  ELSE IF species_id = 0 \/ species_id > 386 THEN
    [tag |-> "verdict", verdict |-> FALSE, reason |-> <<"Species #", species_id, " cannot be transferred to Gen 3 GBA">>]
  ELSE
    [tag |-> "verdict", verdict |-> TRUE, reason |-> <<"Compatible">>]

---------------------------------------------------------------------------
(* Input images.  The inputs of the parsers are byte strings laid out as   *)
(* the cartridge hardware writes them; `given` remembers what was put in.  *)

\* bounds of the inputs
MaxPvLow     == 23     \* personality values 0 .. MaxPvLow, with either high half
MaxPartyCount == 9     \* stored party counts 0 .. MaxPartyCount

LE16(v) == <<v % 256, v \div 256>>
LE32(w) == LE16(w.lo) \o LE16(w.hi)
BE16(v) == <<v \div 256, v % 256>>
BE32(w) == BE16(w.hi) \o BE16(w.lo)

\* the bytes of seq laid at offset off
Place(off, seq) == [k \in off .. off + Len(seq) - 1 |-> seq[k - off + 1]]

\* the byte string holding seq
FromSeq(seq) == MkBytes(Len(seq), [k \in {j \in 0 .. Len(seq) - 1 : seq[j + 1] # 0} |-> seq[k + 1]])

RemoveAt(seq, i) == SubSeq(seq, 1, i - 1) \o SubSeq(seq, i + 1, Len(seq))

\* the hardware's substructure order for index idx: the idx-th arrangement of
\* Growth, Attacks, Condition (E), Misc in lexicographic order
HardwareOrder(idx) ==
  LET s4 == <<"G", "A", "E", "M">>
      i1 == (idx \div 6) + 1
      s3 == RemoveAt(s4, i1)
      i2 == ((idx % 6) \div 2) + 1
      s2 == RemoveAt(s3, i2)
      i3 == (idx % 2) + 1
      s1 == RemoveAt(s2, i3)
  IN <<s4[i1], s3[i2], s2[i3], s1[1]>>

\* the 12 plain bytes of one substructure of the creature fx
PlainBlock(fx, letter) ==
  CASE letter = "G" -> LE16(fx.species) \o LE16(fx.item) \o LE32(fx.exp)
                       \o <<3, 70>> \o LE16(0)
    [] letter = "A" -> LE16(33) \o LE16(45) \o LE16(0) \o LE16(354) \o <<35, 40, 0, 5>>
    [] letter = "E" -> fx.evs \o <<1, 2, 3, 4, 5, 6>>
    [] letter = "M" -> <<0, 16>> \o LE16(fx.origins) \o LE32(fx.ivword) \o LE32(fx.ribbons)

\* the 48 plain payload bytes, in the order the hardware shuffles them
PlainPayload(fx) ==
  LET order == HardwareOrder(ModW(fx.pv, 24))
  IN PlainBlock(fx, order[1]) \o PlainBlock(fx, order[2])
     \o PlainBlock(fx, order[3]) \o PlainBlock(fx, order[4])

\* the payload as stored: byte k XOR-ed with byte (k mod 4) of pv XOR owner id
Encrypted(fx) ==
  LET keybytes == LE32(XorW(fx.pv, fx.otid))
      plain    == PlainPayload(fx)
  IN [k \in 1 .. 48 |-> Xor16(plain[k], keybytes[((k - 1) % 4) + 1])]

\* the 100 bytes of a party record
Record100(fx) ==
  LE32(fx.pv) \o LE32(fx.otid)
  \o <<188, 255, 255, 255, 255, 255, 255, 255, 255, 255>>   \* nickname "A"
  \o <<2, 0>>                                               \* language
  \o <<189, 255, 255, 255, 255, 255, 255>>                  \* owner name "B"
  \o <<0>> \o LE16(0) \o LE16(0)
  \o Encrypted(fx)
  \o LE32(W(0, 0)) \o <<fx.level, 0>>
  \o LE16(20) \o LE16(21) \o LE16(11) \o LE16(12) \o LE16(13) \o LE16(14) \o LE16(15)

\* a creature: the fields the inputs vary, the rest fixed
Creature(pv, otid, species, ivword) ==
  [pv |-> pv, otid |-> otid, species |-> species, item |-> 0,
   exp |-> W(0, 1000), evs |-> <<4, 0, 252, 0, 0, 252>>, origins |-> 5 + 128 * 3,
   ivword |-> ivword, ribbons |-> W(0, 0), level |-> 10]

PvSet      == {W(h, l) : h \in {0, 65535}, l \in 0 .. MaxPvLow}
OtIdSet    == {W(0, 0), W(43981, 4660)}
SpeciesSet == {0, 1, 386, 387, 65535}
\* IV words: none set, all 32 bits set, egg bit only, fields 1..6 with the
\* ability bit, and the two alternating bit patterns
IvWordSet  == {W(0, 0), W(65535, 65535), W(16384, 0),
               W(32768 + 6 * 512 + 5 * 16 + 2, 1 + 2 * 32 + 3 * 1024),
               W(43690, 43690), W(21845, 21845)}
RecordLens == {0, 31, 32, 79, 80, 99, 100}

\* every personality value, owner id and species at full length; every IV
\* word; and every length
Pk3Inputs ==
  {<<Creature(pv, otid, sp, W(0, 0)), PK3_SIZE>> :
      pv \in PvSet, otid \in OtIdSet, sp \in SpeciesSet}
  \cup {<<Creature(W(65535, 7), W(43981, 4660), sp, iv), n>> :
      sp \in SpeciesSet, iv \in IvWordSet, n \in RecordLens}
  \* owner id 0xABCD1234 with the personality values whose halves XOR to
  \* 0xABCD XOR 0x1234 XOR (0 .. MaxPvLow), and to that with bit 3 inverted
  \cup {<<Creature(W(hi, l), W(43981, 4660), 25, W(0, 0)), PK3_SIZE>> :
          hi \in {47609, 47601}, l \in 0 .. MaxPvLow}

InitPk3 ==
  /\ call = "pk3"
  /\ pc = "start"
  /\ \E x \in Pk3Inputs :
       /\ given = [rec |-> x[1], len |-> x[2]]
       /\ input = Slice(FromSeq(Record100(x[1])), 0, x[2])
  /\ cand_a = None
  /\ cand_b = None
  /\ result = None
  /\ transferable = None
  /\ NoObjects

\* one call of _parse_pk3 on the input
ParsePk3 ==
  /\ call = "pk3"
  /\ pc = "start"
  /\ pc' = "done"
  /\ result' = _parse_pk3(input)
  /\ UNCHANGED <<call, given, input, cand_a, cand_b, transferable, objectVars>>

---------------------------------------------------------------------------
(* Cartridge images *)

Shift(f, d) == [k \in {j + d : j \in DOMAIN f} |-> f[k - d]]

\* the merge of the byte maps fs[1..n]
RECURSIVE MergeAll(_)
MergeAll(fs) ==
  IF fs = <<>> THEN [k \in {} |-> 0]
  ELSE Head(fs) @@ MergeAll(Tail(fs))

\* the virtual storage buffer of a slot: box slot k holds the first 80 bytes
\* of its record at 4 + 80 k, and the nine bytes of the name of box b (if the
\* slot gives names) lie at 0x8344 + 9 b
PcMap(s) ==
  LET ks == DOMAIN s.box
      at(o) == LET k == (o - 4) \div PC_POKEMON_SIZE
               IN Record100(s.box[k])[((o - 4) % PC_POKEMON_SIZE) + 1]
  IN [o \in UNION {4 + k * PC_POKEMON_SIZE .. 4 + k * PC_POKEMON_SIZE + PC_POKEMON_SIZE - 1 : k \in ks}
        |-> at(o)]
     @@ (IF "names" \in DOMAIN s
         THEN MergeAll([b \in 1 .. Len(s.names) |->
                          Place(BOX_NAMES_START + (b - 1) * BOX_NAME_LEN, s.names[b])])
         ELSE [k \in {} |-> 0])

\* the data area of the section with this id in slot s
SectionPayload(s, id) ==
  CASE id = 0 ->
         Place(10, LE16(s.tid) \o LE16(4321) \o LE16(12) \o <<34, 56>>)
         @@ Place(152, <<7>>) @@ Place(656, LE32(W(1, 2)))
    [] id = 1 ->
         Place(PARTY_COUNT_OFFSET, LE32(s.count))
         @@ MergeAll([k \in 1 .. Len(s.party) |->
                        Place(PARTY_DATA_OFFSET + (k - 1) * PK3_SIZE, Record100(s.party[k]))])
    [] id \in 5 .. 13 ->
         LET lo == (id - 5) * GBA_FOOTER_OFFSET
             pm == PcMap(s)
         IN [o \in {j - lo : j \in {x \in DOMAIN pm : x >= lo /\ x < lo + GBA_FOOTER_OFFSET}}
               |-> pm[o + lo]]
    [] OTHER -> [k \in {} |-> 0]

\* the section at physical position i (0..13) of slot s; a slot's `mark`
\* sets byte 100 of the section, which sections 0..4 do not use, to tell
\* copies of a section apart
SectionMap(s, i) ==
  LET id == s.layout[i + 1]
  IN Place(GBA_SECTION_ID_OFF, LE16(id) \o LE16(0) \o LE32(s.idx))
     @@ (IF "mark" \in DOMAIN s /\ i \in DOMAIN s.mark
         THEN Place(100, <<s.mark[i]>>) ELSE [k \in {} |-> 0])
     @@ SectionPayload(s, id)

SlotMap(s) ==
  MergeAll([i \in 1 .. GBA_SECTION_COUNT |-> Shift(SectionMap(s, i - 1), (i - 1) * GBA_SECTION_SIZE)])

\* two slots back to back in a 128 KB image, cut to len bytes
Image(g) ==
  Slice(MkBytes(GBA_SAVE_SIZE, SlotMap(g.a) @@ Shift(SlotMap(g.b), GBA_SLOT_SIZE)), 0, g.len)

\* section id layouts of a slot; an erased flash section reads id 0xFFFF
MaxRot == 1            \* rotations 0 .. MaxRot of the section order
Erased      == Pow2(16) - 1
\* all fourteen sections, rotated by r
Rot(r)      == [i \in 1 .. GBA_SECTION_COUNT |-> (i - 1 + r) % GBA_SECTION_COUNT]
\* sections 0..4 rotated by r and the first n storage sections; the rest erased
Store(r, n) == [i \in 1 .. GBA_SECTION_COUNT |->
                  IF i <= 5 THEN (i - 1 + r) % 5
                  ELSE IF i <= 5 + n THEN i - 1 ELSE Erased]
Core(r)     == Store(r, 0)
AllBad(bad) == [i \in 1 .. GBA_SECTION_COUNT |-> bad]
No0(bad)    == [i \in 1 .. GBA_SECTION_COUNT |-> IF i = 1 THEN bad ELSE Core(0)[i]]
Dup         == [i \in 1 .. GBA_SECTION_COUNT |-> IF i = 5 THEN 1 ELSE Core(0)[i]]
Only13      == [i \in 1 .. GBA_SECTION_COUNT |-> IF i = 3 THEN 13 ELSE 14]
Rotations   == {Core(r) : r \in 0 .. MaxRot}
Layouts     == Rotations \cup {AllBad(14), AllBad(99), No0(99), Dup, Only13}

SaveIndexes == {W(0, 3), W(0, 7), W(40000, 3), W(40000, 7)}
ImageLens   == {GBA_SLOT_SIZE - 1, GBA_SLOT_SIZE, GBA_SAVE_SIZE - 1, GBA_SAVE_SIZE}

\* a slot with one party creature of the given species and empty boxes
PlainSlot(layout, idx, species) ==
  [layout |-> layout, idx |-> idx, tid |-> species, count |-> W(0, 1),
   party |-> <<Creature(W(0, 5), W(0, 0), species, W(0, 0))>>,
   box |-> [k \in {} |-> 0]]

\* nine decodable records follow the count, except that record `bad` (if any)
\* holds species `sp`
PartySlot(count, bad, sp) ==
  [layout |-> Core(0), idx |-> W(0, 3), tid |-> 1, count |-> count,
   party |-> [k \in 1 .. 9 |-> Creature(W(0, k), W(0, 0), IF k = bad THEN sp ELSE 100 + k, W(0, 0))],
   box |-> [k \in {} |-> 0]]

\* one storage record at box slot k of a slot with n storage sections
BoxSlot(n, k, c) ==
  [layout |-> Store(1, n), idx |-> W(0, 3), tid |-> 1, count |-> W(0, 0),
   party |-> <<>>, box |-> [j \in {k} |-> c]]

\* three party records and storage records at box slots 0, 1, 2, 30, 31;
\* party record badp and box slot badb (if any) hold species sp
ManySlot(badp, badb, sp) ==
  [layout |-> Store(1, 1), idx |-> W(0, 3), tid |-> 1, count |-> W(0, 3),
   party |-> [k \in 1 .. 3 |-> Creature(W(0, k), W(0, 0), IF k = badp THEN sp ELSE 100 + k, W(0, 0))],
   box |-> [j \in {0, 1, 2, 30, 31} |->
              Creature(W(0, j), W(0, 0), IF j = badb THEN sp ELSE 150 + j, W(0, 0))]]

\* which party record and which box slot is undecodable: none, one of them,
\* or both
BadPairs == {<<0, 99>>, <<2, 99>>, <<0, 1>>, <<0, 30>>, <<1, 31>>}

\* all fourteen sections in the physical order i -> (i * m + r) mod 14
\* (m = 1: a rotation; m = 13: the reverse order; m = 3: a shuffle)
Perm(m, r) == [i \in 1 .. GBA_SECTION_COUNT |-> ((i - 1) * m + r) % GBA_SECTION_COUNT]
PermLayouts == {Perm(m, r) : m \in {1, 3, 13}, r \in {0, 1, 7}}

\* two party records, and storage records at box slots 0, 50, 51 (which lies
\* across sections 5 and 6), 52 and 419 (in section 13)
FullSlot(layout, sp) ==
  [layout |-> layout, idx |-> W(0, 3), tid |-> 1, count |-> W(0, 2),
   party |-> <<Creature(W(0, 1), W(0, 0), sp, W(0, 0)), Creature(W(0, 2), W(0, 0), 102, W(0, 0))>>,
   box |-> [j \in {0, 50, 51, 52, 419} |->
              Creature(W(0, j % 24), W(0, 0), IF j = 0 THEN sp ELSE 150 + (j % 100), W(0, 0))]]

\* sections 0..4 and the storage sections with these ids; the rest erased
StoreIds(ids) == [i \in 1 .. GBA_SECTION_COUNT |->
                    IF i <= 5 THEN i - 1 ELSE IF i - 1 \in ids THEN i - 1 ELSE Erased]
StoreIdSets == {5 .. 13, 5 .. 12, 6 .. 13, {13}, {5}, {}}

\* stored box names and the text each one reads as (empty: no name):
\* "ABC"; a terminator first; nine spaces; " A B " with spaces around;
\* a byte outside the table and the second codes of the two quotes; nine
\* letters without terminator; "Box 1"
NamePatterns ==
  << [bytes |-> <<188, 189, 190, 255, 255, 255, 255, 255, 255>>, text |-> <<188, 189, 190>>],
     [bytes |-> <<255, 188, 189, 190, 255, 255, 255, 255, 255>>, text |-> <<>>],
     [bytes |-> <<0, 0, 0, 0, 0, 0, 0, 0, 0>>,                   text |-> <<>>],
     [bytes |-> <<0, 188, 0, 189, 0, 255, 188, 188, 188>>,       text |-> <<188, 0, 189>>],
     [bytes |-> <<1, 178, 180, 255, 255, 255, 255, 255, 255>>,   text |-> <<172, 177, 179>>],
     [bytes |-> <<188, 189, 190, 191, 192, 193, 194, 195, 196>>,
      text  |-> <<188, 189, 190, 191, 192, 193, 194, 195, 196>>],
     [bytes |-> <<189, 234, 243, 0, 162, 255, 255, 255, 255>>,   text |-> <<189, 234, 243, 0, 162>>] >>

\* the pattern of box b (0..13) when the patterns are dealt out from r on
PatternOf(r, b) == NamePatterns[((b + r) % Len(NamePatterns)) + 1]

\* one party record, storage records at box slots 0, 29, 30 and 419, and the
\* fourteen box names dealt out from pattern r on
NamedSlot(ids, r) ==
  [layout |-> StoreIds(ids), idx |-> W(0, 3), tid |-> 1, count |-> W(0, 1),
   party |-> <<Creature(W(0, 1), W(0, 0), 101, W(0, 0))>>,
   box |-> [j \in {0, 29, 30, 419} |-> Creature(W(0, j % 24), W(0, 0), 150 + (j % 100), W(0, 0))],
   names |-> [b \in 1 .. PC_BOX_COUNT |-> PatternOf(r, b - 1).bytes],
   deal |-> r]

PartyCounts == {W(0, c) : c \in 0 .. MaxPartyCount} \cup {W(1, 0), W(65535, 65535)}
\* box slots within the first storage section, and in all nine
\* slot s with each section of id 0 erased
WithoutSection0(s) ==
  [s EXCEPT !.layout = [i \in 1 .. GBA_SECTION_COUNT |->
                          IF s.layout[i] = 0 THEN Erased ELSE s.layout[i]]]

\* a slot with a party record and two storage sections, and the same slot
\* without its section 0
HeadSlots(idx, sp) ==
  LET s == PlainSlot(Store(1, 2), idx, sp)
  IN {s, WithoutSection0(s)}

\* sections 0..4 in order, then copies of section `id` at the physical
\* positions in `at` (0-based, within 5..13)
Copies(id, at) == [i \in 1 .. GBA_SECTION_COUNT |->
                     IF i <= 5 THEN i - 1 ELSE IF i - 1 \in at THEN id ELSE Erased]

\* which copies of the section carry a mark (its own position number): none
\* but the last, none but the first, all, all but the last
MarkChoices(id, at) ==
  LET all  == {id} \cup at
      last == CHOOSE i \in all : \A j \in all : j <= i
  IN {[i \in m |-> i + 1] : m \in {{last}, {id}, all, all \ {last}}}

\* a slot with two or three sections of one id
CopySlot(id, at, mark) ==
  [layout |-> Copies(id, at), idx |-> W(0, 3), tid |-> 25, count |-> W(0, 1),
   party |-> <<Creature(W(0, 5), W(0, 0), 25, W(0, 0))>>,
   box |-> [k \in {} |-> 0], mark |-> mark]

CopyPlaces == {{7}, {6, 9}}

BoxSlots1   == {0, 29, 30, 50}
BoxSlots9   == {0, 419}

SaveInputs ==
  {[len |-> GBA_SAVE_SIZE, a |-> PlainSlot(la, ia, 25), b |-> PlainSlot(lb, ib, 26)] :
      la \in Rotations, lb \in Rotations, ia \in SaveIndexes, ib \in SaveIndexes}
  \cup {[len |-> GBA_SAVE_SIZE, a |-> PlainSlot(Rot(r), W(0, 7), 25), b |-> PlainSlot(Rot(r), ib, 26)] :
      r \in 0 .. MaxRot, ib \in {W(0, 7), W(40000, 3)}}
  \cup {[len |-> n, a |-> PlainSlot(la, W(0, 3), 25), b |-> PlainSlot(lb, W(0, 7), 26)] :
      la \in Layouts, lb \in Layouts, n \in ImageLens}
  \cup {[len |-> GBA_SLOT_SIZE, a |-> PartySlot(c, bad, sp), b |-> PlainSlot(AllBad(99), W(0, 0), 26)] :
      c \in PartyCounts, bad \in 0 .. 6, sp \in {0, 387}}
  \cup {[len |-> GBA_SAVE_SIZE, a |-> PlainSlot(AllBad(99), W(0, 0), 25),
         b |-> BoxSlot(1, k, Creature(W(0, 9), W(0, 0), sp, W(0, 0)))] :
      k \in BoxSlots1, sp \in SpeciesSet}
  \cup {[len |-> GBA_SAVE_SIZE, a |-> PlainSlot(AllBad(99), W(0, 0), 25),
         b |-> BoxSlot(9, k, Creature(W(0, 9), W(0, 0), sp, W(0, 0)))] :
      k \in BoxSlots9, sp \in {1, 387}}
  \cup {[len |-> GBA_SAVE_SIZE, a |-> PlainSlot(AllBad(99), W(0, 0), 25),
         b |-> ManySlot(bp[1], bp[2], sp)] :
      bp \in BadPairs, sp \in {0, 387}}
  \cup {[len |-> GBA_SLOT_SIZE, a |-> FullSlot(l, sp), b |-> PlainSlot(AllBad(99), W(0, 0), 26)] :
          l \in PermLayouts, sp \in {1, 386}}
  \cup {[len |-> GBA_SLOT_SIZE, a |-> NamedSlot(ids, r), b |-> PlainSlot(AllBad(99), W(0, 0), 26)] :
          ids \in StoreIdSets, r \in 0 .. Len(NamePatterns) - 1}
  \cup {[len |-> n, a |-> sa, b |-> sb] :
          sa \in HeadSlots(W(0, 7), 1) \cup HeadSlots(W(0, 0), 1),
          sb \in HeadSlots(W(0, 0), 386) \cup HeadSlots(W(0, 7), 386),
          n \in {GBA_SLOT_SIZE, GBA_SAVE_SIZE}}
  \cup UNION {UNION {{[len |-> GBA_SAVE_SIZE, a |-> CopySlot(id, at, mark),
                       b |-> PlainSlot(AllBad(99), W(0, 0), 26)] :
                        mark \in MarkChoices(id, at)} : at \in CopyPlaces} : id \in 0 .. 2}

InitSave ==
  /\ call = "save"
  /\ pc = "start"
  /\ \E g \in SaveInputs :
       /\ given = g
       /\ input = Image(g)
  /\ cand_a = None
  /\ cand_b = None
  /\ result = None
  /\ transferable = None
  /\ NoObjects

\* one call of parse_save_file, directly or through load_gba_save; cand_a,
\* cand_b are its slot_a and slot_b
ParseSaveFile ==
  /\ call \in {"save", "list"}
  /\ pc = "start"
  /\ pc' = "done"
  /\ LET r == parse_save_file(input)
     IN /\ cand_a' = r.slot_a
        /\ cand_b' = r.slot_b
        /\ result' = r.ret
  /\ UNCHANGED <<call, given, input, transferable, objectVars>>

---------------------------------------------------------------------------
(* Two calls of parse_save_file on one GBASaveParser, run by two threads    *)

Callers == {1, 2}

\* one frame for all calls, as if the locals were attributes of the parser
SharedFrame(t) == 1

\* data, slot_a, slot_b and sections are locals of parse_save_file: each
\* call has a frame of its own
FrameOf(t) == t

EmptyFrame == [data |-> None, slot_a |-> None, slot_b |-> None, sections |-> "none"]
Pending    == [tag |-> "Pending"]

\* the images the two threads parse: slots in either order of save index, a
\* rotated slot, a slot without section 0, no valid slot, a short file
ParGivens ==
  << [len |-> GBA_SAVE_SIZE, a |-> PlainSlot(Core(0), W(0, 3), 25), b |-> PlainSlot(Core(1), W(0, 7), 26)],
     [len |-> GBA_SAVE_SIZE, a |-> PlainSlot(Core(1), W(0, 7), 1), b |-> PlainSlot(Core(0), W(0, 3), 386)],
     [len |-> GBA_SLOT_SIZE, a |-> PlainSlot(Core(0), W(40000, 3), 386), b |-> PlainSlot(AllBad(99), W(0, 0), 26)],
     [len |-> GBA_SAVE_SIZE, a |-> PlainSlot(No0(99), W(0, 3), 25), b |-> PlainSlot(AllBad(99), W(0, 7), 26)],
     [len |-> GBA_SAVE_SIZE, a |-> PlainSlot(AllBad(99), W(0, 3), 25), b |-> PlainSlot(AllBad(14), W(0, 7), 26)],
     [len |-> GBA_SLOT_SIZE - 1, a |-> PlainSlot(Core(0), W(0, 3), 25), b |-> PlainSlot(AllBad(99), W(0, 7), 26)] >>

InitPar ==
  /\ call = "par"
  /\ pc = "start"
  /\ \E i \in 1 .. Len(ParGivens), j \in 1 .. Len(ParGivens) :
       /\ given = <<ParGivens[i], ParGivens[j]>>
       /\ input = <<Image(ParGivens[i]), Image(ParGivens[j])>>
  /\ cand_a = None
  /\ cand_b = None
  /\ result = [tag |-> "results", ret |-> [t \in Callers |-> Pending]]
  /\ transferable = None
  /\ frames = [tag |-> "frames", pos |-> [t \in Callers |-> "read"],
                local |-> [t \in Callers |-> EmptyFrame]]
  /\ slots = <<>>
  /\ _active_link_sessions = <<>>
  /\ _transfer_history = <<>>
  /\ now = 0

Local(t) == frames.local[FrameOf(t)]

\* thread t moves to position p with its frame set to f
Goes(t, p, f) ==
  /\ frames' = [frames EXCEPT !.pos[t] = p, !.local[FrameOf(t)] = f]
  /\ UNCHANGED <<pc, result>>

\* thread t returns v (or lets an exception out: Fault)
Returns(t, v) ==
  /\ frames' = [frames EXCEPT !.pos[t] = "done"]
  /\ result' = [result EXCEPT !.ret[t] = v]
  /\ pc' = IF \A u \in Callers \ {t} : frames.pos[u] = "done" THEN "done" ELSE pc

ParFixed == UNCHANGED <<call, given, input, cand_a, cand_b, transferable,
                       slots, _active_link_sessions, _transfer_history, now>>

\* `data = path.read_bytes()` and the size test
ParRead(t) ==
  /\ call = "par" /\ frames.pos[t] = "read"
  /\ IF input[t].len < GBA_SAVE_SIZE /\ input[t].len < GBA_SLOT_SIZE
     THEN Returns(t, None)
     ELSE Goes(t, "slot_a", [Local(t) EXCEPT !.data = input[t]])
  /\ ParFixed

\* `slot_a = self._parse_slot(data, 0)`
ParSlotA(t) ==
  /\ call = "par" /\ frames.pos[t] = "slot_a"
  /\ LET slot_a == _parse_slot(Local(t).data, 0)
     IN IF IsFault(slot_a) THEN Returns(t, Fault)
        ELSE Goes(t, "slot_b", [Local(t) EXCEPT !.slot_a = slot_a])
  /\ ParFixed

\* `slot_b = self._parse_slot(data, GBA_SLOT_SIZE) if ... else None`
ParSlotB(t) ==
  /\ call = "par" /\ frames.pos[t] = "slot_b"
  /\ LET data == Local(t).data
         slot_b == IF SecondSlotPresent(data) THEN _parse_slot(data, GBA_SLOT_SIZE) ELSE None
     IN IF IsFault(slot_b) THEN Returns(t, Fault)
        ELSE Goes(t, "pick", [Local(t) EXCEPT !.slot_b = slot_b])
  /\ ParFixed

\* `sections = self._pick_best_slot(slot_a, slot_b)` and `if sections is None`
ParPick(t) ==
  /\ call = "par" /\ frames.pos[t] = "pick"
  /\ LET sections == _pick_best_slot(Local(t).slot_a, Local(t).slot_b)
     IN IF sections = "none" THEN Returns(t, None)
        ELSE Goes(t, "decode", [Local(t) EXCEPT !.sections = sections])
  /\ ParFixed

\* the rest of the call: trainer info, party, boxes, `return GBASave(...)`
ParDecode(t) ==
  /\ call = "par" /\ frames.pos[t] = "decode"
  /\ Returns(t, ParseSections(Local(t).sections, Local(t).slot_a, Local(t).slot_b))
  /\ ParFixed

ParStep ==
  \E t \in Callers : ParRead(t) \/ ParSlotA(t) \/ ParSlotB(t) \/ ParPick(t) \/ ParDecode(t)

---------------------------------------------------------------------------
(* MemoryCard.add_slot, MemoryCard.remove_slot and                         *)
(* MemoryCardManager.export_team_to_slot (memory_card.py)                  *)

MaxOps       == 4      \* changes made to one card
MaxSlotIndex == 2      \* slot indexes 0 .. MaxSlotIndex

\* the positions of the list that hold a slot with this index
Holding(list, index) == {i \in 1 .. Len(list) : list[i].slot_index = index}

\* the list with the element at position i taken out: list.pop(i)
Pop(list, i) == SubSeq(list, 1, i - 1) \o SubSeq(list, i + 1, Len(list))

\* an add_slot that appends without looking for the index
AppendAlways(list, slot) == Append(list, slot)

\* self.slots after add_slot(slot): the first slot with the same index is
\* replaced where it is, otherwise the slot is appended
add_slot(list, slot) ==
  LET found == Holding(list, slot.slot_index)
  IN IF found # {}
     THEN [list EXCEPT ![CHOOSE i \in found : \A j \in found : i <= j] = slot]
     ELSE Append(list, slot)

\* self.slots after remove_slot(index), with the value returned
remove_slot(list, index) ==
  LET found == Holding(list, index)
  IN IF found # {}
     THEN [list |-> Pop(list, CHOOSE i \in found : \A j \in found : i <= j), value |-> TRUE]
     ELSE [list |-> list, value |-> FALSE]

\* the slot export_team_to_slot builds: the name cut to 8 characters, the
\* id to 16 bits, the party to 6 members
ExportedSlot(slot_index, trainer_name, trainer_id, party) ==
  [slot_index |-> slot_index, status |-> "OCCUPIED",
   trainer_name |-> SubSeq(trainer_name, 1, Min(8, Len(trainer_name))),
   trainer_id |-> trainer_id % Pow2(16),
   party |-> SubSeq(party, 1, Min(6, Len(party)))]

\* slots handed to add_slot directly
GivenSlots ==
  {[slot_index |-> i, status |-> st, trainer_name |-> <<"A">>, trainer_id |-> 7, party |-> <<>>] :
     i \in 0 .. MaxSlotIndex, st \in {"EMPTY", "OCCUPIED"}}

\* a card as MemoryCard() makes it: no slots
InitCard ==
  /\ call = "card"
  /\ pc = "idle"
  /\ given = None
  /\ input = None
  /\ cand_a = None
  /\ cand_b = None
  /\ result = None
  /\ transferable = None
  /\ frames = None
  /\ slots = <<>>
  /\ _active_link_sessions = <<>>
  /\ _transfer_history = <<>>
  /\ now = 0

CardFixed == UNCHANGED <<call, pc, input, cand_a, cand_b, transferable, frames,
                        _active_link_sessions, _transfer_history>>

\* card.add_slot(slot); modified_at is set from the clock
AddSlot ==
  /\ call = "card" /\ now < MaxOps
  /\ \E slot \in GivenSlots :
       /\ slots' = add_slot(slots, slot)
       /\ given' = [tag |-> "add_slot", slot |-> slot]
       /\ result' = [tag |-> "returned", value |-> TRUE]
  /\ now' = now + 1
  /\ CardFixed

\* card.remove_slot(index); modified_at is set only when a slot was removed
RemoveSlot ==
  /\ call = "card"
  /\ \E index \in 0 .. MaxSlotIndex :
       LET r == remove_slot(slots, index)
       IN /\ r.value => now < MaxOps
          /\ slots' = r.list
          /\ given' = [tag |-> "remove_slot", index |-> index]
          /\ result' = [tag |-> "returned", value |-> r.value]
          /\ now' = IF r.value THEN now + 1 ELSE now
  /\ CardFixed

\* manager.export_team_to_slot(card, slot_index, ...): builds the slot,
\* gives it to card.add_slot and returns it
ExportTeamToSlot ==
  /\ call = "card" /\ now < MaxOps
  /\ \E slot_index \in 0 .. MaxSlotIndex :
       LET slot == ExportedSlot(slot_index, <<"L","O","N","G","N","A","M","E","S">>,
                                Pow2(16) + 9, <<25, 26, 27, 28, 29, 30, 31>>)
       IN /\ slots' = add_slot(slots, slot)
          /\ given' = [tag |-> "export_team_to_slot", slot |-> slot]
          /\ result' = [tag |-> "returned", value |-> slot]
  /\ now' = now + 1
  /\ CardFixed

---------------------------------------------------------------------------
(* GBALinkCableTrading: link sessions and the transfer history             *)
(* (gba_trading.py)                                                        *)

MaxSessions  == 1      \* link sessions created
MaxTransfers == 2      \* transfers made

\* the ids uuid4 hands to sessions; callers may also pass 0, which no
\* session ever has
SessionIds == 1 .. MaxSessions
PassedIds  == {0} \cup SessionIds

\* GBATransferDirection(...).value and GBATransferResult(...).value
EnumValue(member) ==
  CASE member = "GBA_TO_GCN" -> "gba_to_gcn"
    [] member = "GCN_TO_GBA" -> "gcn_to_gba"
    [] member = "SUCCESS" -> "success"
    [] member = "FAILED_SHADOW" -> "failed_shadow"
    [] member = "FAILED_ILLEGAL" -> "failed_illegal"

\* GBATransferRecord.to_dict
to_dict(record) ==
  [record EXCEPT !.tag = "dict", !.direction = EnumValue(record.direction),
                 !.result = EnumValue(record.result)]

\* a log that takes a record only while the link is connected
LoggedWhileConnected(sessions, session_id, record) ==
  IF session_id \in DOMAIN sessions /\ sessions[session_id].status = "CONNECTED"
  THEN [sessions EXCEPT ![session_id].transfer_log = Append(@, to_dict(record))]
  ELSE sessions

\* `if session_id in self._active_link_sessions: ...transfer_log.append(...)`
Logged(sessions, session_id, record) ==
  IF session_id \in DOMAIN sessions
  THEN [sessions EXCEPT ![session_id].transfer_log = Append(@, to_dict(record))]
  ELSE sessions

\* total_evs = sum([pokemon_data.get('hp_ev', 0), ...])
total_evs(pokemon_data) ==
  pokemon_data.hp_ev + pokemon_data.atk_ev + pokemon_data.def_ev
    + pokemon_data.spe_ev + pokemon_data.spa_ev + pokemon_data.spd_ev

\* the record transfer_gba_to_gcn makes of pokemon_data at clock reading t
GbaToGcnRecord(session_id, pokemon_data, t) ==
  LET checked == check_gba_to_gcn(pokemon_data.species_id, FALSE, pokemon_data.is_egg,
                                  pokemon_data.level, total_evs(pokemon_data))
  IN [tag |-> "GBATransferRecord", transfer_id |-> t, session_id |-> session_id,
      direction |-> "GBA_TO_GCN", species_id |-> pokemon_data.species_id,
      level |-> pokemon_data.level,
      result |-> IF checked.verdict THEN "SUCCESS" ELSE "FAILED_ILLEGAL",
      timestamp |-> t,
      notes |-> IF ~checked.verdict THEN checked.reason ELSE <<>>]

\* the record transfer_gcn_to_gba makes of pokemon at clock reading t
GcnToGbaRecord(session_id, pokemon, t) ==
  LET is_shadow == pokemon.shadow /\ pokemon.shadow_level > 0
      checked == check_gcn_to_gba(pokemon.species_id, is_shadow, FALSE, pokemon.level)
  IN [tag |-> "GBATransferRecord", transfer_id |-> t, session_id |-> session_id,
      direction |-> "GCN_TO_GBA", species_id |-> pokemon.species_id,
      level |-> pokemon.level,
      result |-> IF is_shadow THEN "FAILED_SHADOW"
                 ELSE IF ~checked.verdict THEN "FAILED_ILLEGAL" ELSE "SUCCESS",
      timestamp |-> t,
      notes |-> IF ~checked.verdict THEN checked.reason ELSE <<>>]

\* cartridge records offered for transfer: a sound one and an egg
GbaOffers ==
  {[species_id |-> 25, level |-> 50, is_egg |-> egg, hp_ev |-> 0, atk_ev |-> 0,
    def_ev |-> 0, spe_ev |-> 0, spa_ev |-> 0, spd_ev |-> 0] : egg \in BOOLEAN}

\* console creatures offered for transfer: a sound one, a shadow one and one
\* of a species the cartridge games do not have
GcnOffers ==
  {[species_id |-> 150, level |-> 70, shadow |-> FALSE, shadow_level |-> 0],
   [species_id |-> 249, level |-> 50, shadow |-> TRUE, shadow_level |-> 3],
   [species_id |-> 387, level |-> 5, shadow |-> FALSE, shadow_level |-> 0]}

\* GBALinkCableTrading.__init__: no session, empty history
InitLink ==
  /\ call = "link"
  /\ pc = "idle"
  /\ given = None
  /\ input = None
  /\ cand_a = None
  /\ cand_b = None
  /\ result = None
  /\ transferable = None
  /\ frames = None
  /\ slots = <<>>
  /\ _active_link_sessions = <<>>
  /\ _transfer_history = <<>>
  /\ now = 0

LinkFixed == UNCHANGED <<call, pc, input, cand_a, cand_b, transferable, frames, slots>>

\* create_gba_link_session: a new id from uuid4, status CONNECTED
CreateGbaLinkSession ==
  /\ call = "link"
  /\ \E session_id \in SessionIds \ DOMAIN _active_link_sessions :
       LET session == [tag |-> "GBALinkSession", session_id |-> session_id,
                       status |-> "CONNECTED", connected_at |-> now,
                       transfer_log |-> <<>>]
       IN /\ _active_link_sessions' =
               [id \in DOMAIN _active_link_sessions \cup {session_id} |->
                  IF id = session_id THEN session ELSE _active_link_sessions[id]]
          /\ given' = [tag |-> "create_gba_link_session"]
          /\ result' = session
  /\ now' = now + 1
  /\ UNCHANGED _transfer_history
  /\ LinkFixed

\* the tail shared by the two transfers: the record goes to the history,
\* and to the log of the session if there is one, and is returned
Transferred(name, session_id, record) ==
  /\ _transfer_history' = Append(_transfer_history, record)
  /\ _active_link_sessions' = Logged(_active_link_sessions, session_id, record)
  /\ given' = [tag |-> name, session_id |-> session_id]
  /\ result' = record
  /\ now' = now + 1
  /\ LinkFixed

TransferGbaToGcn ==
  /\ call = "link" /\ Len(_transfer_history) < MaxTransfers
  /\ \E session_id \in PassedIds, pokemon_data \in GbaOffers :
       Transferred("transfer_gba_to_gcn", session_id,
                   GbaToGcnRecord(session_id, pokemon_data, now))

TransferGcnToGba ==
  /\ call = "link" /\ Len(_transfer_history) < MaxTransfers
  /\ \E session_id \in PassedIds, pokemon \in GcnOffers :
       Transferred("transfer_gcn_to_gba", session_id,
                   GcnToGbaRecord(session_id, pokemon, now))

\* disconnect(session_id)
Disconnect ==
  /\ call = "link"
  /\ \E session_id \in PassedIds :
       /\ _active_link_sessions' =
            IF session_id \in DOMAIN _active_link_sessions
            THEN [_active_link_sessions EXCEPT ![session_id].status = "DISCONNECTED"]
            ELSE _active_link_sessions
       /\ given' = [tag |-> "disconnect", session_id |-> session_id]
       /\ result' = [tag |-> "returned", value |-> session_id \in DOMAIN _active_link_sessions]
  /\ UNCHANGED <<_transfer_history, now>>
  /\ LinkFixed

---------------------------------------------------------------------------
(* Memory-card export images *)

\* a memory-card creature
GcCreature(species, level, ivword, shadow) ==
  [species |-> species, level |-> level, ivword |-> ivword, shadow |-> shadow,
   nature |-> 27, slevel |-> 9]

\* a memory-card creature with this shadow flag byte, shadow-level byte and
\* nature byte
GcShadowCreature(shadow, slevel, nature) ==
  [species |-> 150, level |-> 50, ivword |-> W(0, 0), shadow |-> shadow,
   nature |-> nature, slevel |-> slevel]

\* the bytes of one memory-card record, from its offset 0
GcRecord(c) ==
  Place(0, BE16(c.species)) @@ Place(4, <<c.level>>) @@ Place(8, <<c.nature>>)
  @@ Place(16, <<c.shadow, c.slevel>>) @@ Place(24, BE16(65) \o BE16(33) \o BE16(0))
  @@ Place(56, BE32(c.ivword)) @@ Place(64, BE16(33) \o BE16(0) \o BE16(354) \o BE16(0))

GcPartyOff(game_id)  == IF detected_game(game_id) = "XD_GALE" THEN XD_PARTY ELSE COLO_PARTY
GcPokeSize(game_id)  == IF detected_game(game_id) = "XD_GALE" THEN XD_POKE_SIZE ELSE COLO_POKE_SIZE
GcFullLen(game_id)   == GCI_HEADER_SIZE + GcPartyOff(game_id) + 6 * GcPokeSize(game_id)

\* a .gci file: the 64-byte header, the trainer block and six party records,
\* cut to g.len bytes
GciImage(g) ==
  LET base == GCI_HEADER_SIZE
      body == Place(0, g.game_id) @@ Place(40, BE32(W(1, 2))) @@ Place(56, BE16(1))
              @@ Place(60, BE32(W(0, 8192)))
              @@ Place(base + COLO_TRAINER_NAME, BE16(82) \o BE16(69) \o BE16(68) \o BE16(0))
              @@ Place(base + COLO_TRAINER_ID, BE32(W(4660, 22136)))
              @@ Place(base + COLO_PLAY_TIME, BE32(W(12, 34 * 256 + 56)))
              @@ MergeAll([k \in 1 .. Len(g.party) |->
                             Shift(GcRecord(g.party[k]),
                                   base + GcPartyOff(g.game_id) + (k - 1) * GcPokeSize(g.game_id))])
  IN Slice(MkBytes(GcFullLen(g.game_id), body), 0, g.len)

\* b'ABCD', b'GPXP' and b'GC6e': ids the table does not hold
UnknownIds == {<<65, 66, 67, 68>>, GPX(80), GC6(101)}
GameIds  == {GC6(69), GC6(80), GXX(74), GPX(69), <<65, 66, 67, 68>>}
GcLevels == {0, 50, 101}

\* six records: the first varies, the others are fixed and decodable
GcParty(c) == <<c>> \o [k \in 1 .. 5 |-> GcCreature(200 + k, 10 * k, W(0, k), k % 2)]

\* cut points: inside the header, inside the trainer block, around the first
\* and the last record
GcLens(game_id) ==
  {0, GCI_HEADER_SIZE - 1, GCI_HEADER_SIZE, GCI_HEADER_SIZE + 1, GCI_HEADER_SIZE + 138,
   GCI_HEADER_SIZE + GcPartyOff(game_id) + GcPokeSize(game_id) - 1,
   GCI_HEADER_SIZE + GcPartyOff(game_id) + GcPokeSize(game_id),
   GcFullLen(game_id) - 1, GcFullLen(game_id)}

GciInputs ==
  {[game_id |-> id, len |-> GcFullLen(id), party |-> GcParty(GcCreature(sp, lv, iv, 1))] :
      id \in GameIds, sp \in SpeciesSet, lv \in GcLevels, iv \in IvWordSet}
  \cup UNION {{[game_id |-> id, len |-> n, party |-> GcParty(GcCreature(386, 50, W(65535, 65535), 0))] :
                  n \in GcLens(id)} : id \in {GC6(69), GXX(74)}}
  \cup {[game_id |-> id, len |-> GcFullLen(id), party |-> GcParty(GcShadowCreature(sh, sl, na))] :
          id \in {GC6(69), GXX(80)}, sh \in {0, 1, 255}, sl \in {0, 3, 5, 6, 255},
          na \in {0, 24, 25, 49, 255}}
  \cup UNION {{[game_id |-> id, len |-> GCI_HEADER_SIZE + GcPartyOff(id) + k * GcPokeSize(id) - short,
                 party |-> GcParty(GcCreature(sp, 50, W(0, 0), 0))] :
                  k \in 2 .. 5, short \in {0, 1}, sp \in {0, 25}} : id \in {GC6(74), GXX(69)}}
  \cup UNION {{[game_id |-> id, len |-> n, party |-> GcParty(GcCreature(386, 50, W(65535, 65535), 0))] :
                  n \in {0, GCI_HEADER_SIZE - 1, GCI_HEADER_SIZE, GCI_HEADER_SIZE + 1, GcFullLen(id)}} :
              id \in UnknownIds \cup {GPX(74)}}

InitGci ==
  /\ call = "gci"
  /\ pc = "start"
  /\ \E g \in GciInputs :
       /\ given = g
       /\ input = GciImage(g)
  /\ cand_a = None
  /\ cand_b = None
  /\ result = None
  /\ transferable = None
  /\ NoObjects

\* one call of parse_gci_file
ParseGciFile ==
  /\ call = "gci"
  /\ pc = "start"
  /\ pc' = "done"
  /\ result' = parse_gci_file(input)
  /\ UNCHANGED <<call, given, input, cand_a, cand_b, transferable, objectVars>>

---------------------------------------------------------------------------
(* Sections given to _verify_section_checksum *)

MaxFill == 2           \* 0 .. MaxFill words 0xFFFFFFFF after the first word

\* a section: word `first` at offset 0, `fill` words 0xFFFFFFFF from offset 8,
\* word `last` at offset 0xFF4 (the end of the data area), the footer with
\* the stored checksum; cut to g.len bytes
SectionBytes(g) ==
  Slice(MkBytes(GBA_SECTION_SIZE,
                Place(0, LE32(g.first))
                @@ MergeAll([k \in 1 .. g.fill |-> Place(4 + 4 * k, LE32(W(65535, 65535)))])
                @@ Place(GBA_FOOTER_OFFSET - 4, LE32(g.last))
                @@ Place(GBA_SECTION_ID_OFF, LE16(2))
                @@ Place(GBA_CHECKSUM_OFF, LE16(g.stored))
                @@ Place(GBA_SAVE_INDEX_OFF, LE32(W(0, 3)))),
        0, g.len)

\* the words of the data area of g that are not zero
WordsOf(g) == <<g.first, g.last>> \o [k \in 1 .. g.fill |-> W(65535, 65535)]

\* a + b on 32 bits
AddW(a, b) ==
  LET lo == a.lo + b.lo
  IN W((a.hi + b.hi + lo \div 65536) % 65536, lo % 65536)

\* the sum of the words of a sequence, on 32 bits
RECURSIVE Sum32(_)
Sum32(ws) == IF ws = <<>> THEN W(0, 0) ELSE AddW(Head(ws), Sum32(Tail(ws)))

\* the upper half plus the lower half of the 32-bit sum of the words of g
HalvesSum(g) == Sum32(WordsOf(g)).hi + Sum32(WordsOf(g)).lo

\* that sum cut to 16 bits, and that sum with its carry added back in
CutTo16(g)    == HalvesSum(g) % 65536
CarryAdded(g) == (HalvesSum(g) % 65536) + (HalvesSum(g) \div 65536)

\* buf with bit `bit` of the byte at offset off inverted
FlipBit(buf, off, bit) ==
  LET old == ByteAt(buf, off)
      new == IF (old \div Pow2(bit)) % 2 = 1 THEN old - Pow2(bit) ELSE old + Pow2(bit)
  IN MkBytes(buf.len, [k \in DOMAIN buf.b \cup {off} |-> IF k = off THEN new ELSE buf.b[k]])

SumWordSet == {W(0, 0), W(0, 1), W(65535, 1), W(65535, 65535), W(32768, 32768)}
\* bits 0, 15, 16 and 31 of the first word, a bit of a zero word, bit 31 of
\* the last word
FlipSet == {<<0, 0>>, <<1, 7>>, <<2, 0>>, <<3, 7>>, <<2001, 3>>, <<GBA_FOOTER_OFFSET - 1, 7>>}

SumInputs ==
  {[first |-> a, last |-> b, fill |-> f, stored |-> 0, flip |-> fl, len |-> GBA_SECTION_SIZE] :
      a \in SumWordSet, b \in SumWordSet, f \in 0 .. MaxFill, fl \in FlipSet}
  \cup {[first |-> a, last |-> W(0, 0), fill |-> f, stored |-> CutTo16([first |-> a, last |-> W(0, 0), fill |-> f]),
         flip |-> <<0, 0>>, len |-> n] :
      a \in SumWordSet, f \in 0 .. MaxFill,
      n \in {GBA_CHECKSUM_OFF + 1, GBA_SECTION_SIZE}}

InitSum ==
  /\ call = "sum"
  /\ pc = "start"
  /\ \E g \in SumInputs :
       /\ given = g
       /\ input = SectionBytes(g)
  /\ cand_a = None
  /\ cand_b = None
  /\ result = None
  /\ transferable = None
  /\ NoObjects

\* what one call of _verify_section_checksum computes and returns
Verified(section) ==
  [tag |-> "checksum",
   checksum |-> ComputedChecksum(section),
   valid |-> _verify_section_checksum(section)]

\* one call of _verify_section_checksum on the section
VerifySection ==
  /\ call = "sum"
  /\ pc = "start"
  /\ pc' = "verified"
  /\ result' = Verified(input)
  /\ UNCHANGED <<call, given, input, cand_a, cand_b, transferable, objectVars>>

\* one bit of the data area is inverted and the section verified again;
\* cand_a keeps what the first call computed
FlipAndVerify ==
  /\ call = "sum"
  /\ pc = "verified"
  /\ given.len = GBA_SECTION_SIZE
  /\ pc' = "done"
  /\ input' = FlipBit(input, given.flip[1], given.flip[2])
  /\ cand_a' = result
  /\ result' = Verified(input')
  /\ UNCHANGED <<call, given, cand_b, transferable, objectVars>>

---------------------------------------------------------------------------
(* Records given to the transfer evaluators *)

EvSets == {<<0, 0, 0, 0, 0, 0>>, <<255, 255, 0, 0, 0, 0>>, <<255, 255, 1, 0, 0, 0>>,
           <<85, 85, 85, 85, 85, 86>>}

\* a record with the fields the evaluators read, and the evaluator to call;
\* a PK3Pokemon has no shadow state
TransferInputs ==
  {[by |-> by, is_egg |-> egg, is_shadow |-> sh, species_id |-> sp, level |-> lv, evs |-> ev] :
      by \in {"check_gba_to_gcn", "check_gcn_to_gba"},
      egg \in BOOLEAN, sh \in BOOLEAN, sp \in {0, 1, 386, 387}, lv \in {0, 1, 100, 101},
      ev \in EvSets}
  \cup {[by |-> "check_transfer_compatibility",
         is_egg |-> egg, is_shadow |-> FALSE, species_id |-> sp, level |-> lv, evs |-> ev] :
      egg \in BOOLEAN, sp \in {0, 1, 386, 387}, lv \in {0, 1, 100, 101}, ev \in EvSets}

InitTransfer ==
  /\ call = "transfer"
  /\ pc = "start"
  /\ given \in TransferInputs
  /\ input = None
  /\ cand_a = None
  /\ cand_b = None
  /\ result = None
  /\ transferable = None
  /\ NoObjects

CheckTransferCompatibility ==
  /\ call = "transfer" /\ pc = "start"
  /\ given.by = "check_transfer_compatibility"
  /\ pc' = "done"
  /\ result' = check_transfer_compatibility(given)
  /\ UNCHANGED <<call, given, input, cand_a, cand_b, transferable, objectVars>>

CheckGbaToGcn ==
  /\ call = "transfer" /\ pc = "start"
  /\ given.by = "check_gba_to_gcn"
  /\ pc' = "done"
  /\ result' = check_gba_to_gcn(given.species_id, given.is_shadow, given.is_egg,
                                given.level, TotalEvs(given))
  /\ UNCHANGED <<call, given, input, cand_a, cand_b, transferable, objectVars>>

CheckGcnToGba ==
  /\ call = "transfer" /\ pc = "start"
  /\ given.by = "check_gcn_to_gba"
  /\ pc' = "done"
  /\ result' = check_gcn_to_gba(given.species_id, given.is_shadow, given.is_egg, given.level)
  /\ UNCHANGED <<call, given, input, cand_a, cand_b, transferable, objectVars>>

---------------------------------------------------------------------------
(* Saves given to load_gba_save and get_transferable_pokemon *)

\* a creature with this egg bit, species, level and effort values
ListCreature(pv, egg, species, level, evs) ==
  [Creature(pv, W(0, 0), species, IF egg THEN W(16384, 0) ELSE W(0, 0))
     EXCEPT !.level = level, !.evs = evs]

\* party: c and two fixed records (one an egg); storage: c at box slot 0 and
\* fixed records at box slots 1 and 31
ListSlot(c) ==
  [layout |-> Store(1, 1), idx |-> W(0, 3), tid |-> 1, count |-> W(0, 3),
   party |-> <<c, ListCreature(W(0, 2), FALSE, 102, 50, <<0, 0, 0, 0, 0, 0>>),
               ListCreature(W(0, 3), TRUE, 103, 5, <<0, 0, 0, 0, 0, 0>>)>>,
   box |-> [j \in {0, 1, 31} |->
              IF j = 0 THEN c
              ELSE ListCreature(W(0, j), j = 1, 150 + j, 50, <<0, 0, 0, 0, 0, 0>>)]]

ListInputs ==
  {[len |-> GBA_SAVE_SIZE, a |-> PlainSlot(AllBad(99), W(0, 0), 25),
    b |-> ListSlot(ListCreature(W(0, 1), egg, sp, lv, ev))] :
      egg \in BOOLEAN, sp \in {1, 386, 387}, lv \in {0, 1, 100, 101}, ev \in EvSets}

InitList ==
  /\ call = "list"
  /\ pc = "start"
  /\ \E g \in ListInputs :
       /\ given = g
       /\ input = Image(g)
  /\ cand_a = None
  /\ cand_b = None
  /\ result = None
  /\ transferable = None
  /\ NoObjects

\* get_transferable_pokemon(save) and save.transferable_pokemon on the save
\* that was loaded
GetTransferablePokemon ==
  /\ call = "list"
  /\ pc = "done"
  /\ result.tag = "GBASave"
  /\ pc' = "listed"
  /\ UNCHANGED objectVars
  /\ transferable' = [tag |-> "lists",
                      located |-> get_transferable_pokemon(result),
                      pokemon |-> transferable_pokemon(result)]
  /\ UNCHANGED <<call, given, input, cand_a, cand_b, result>>

---------------------------------------------------------------------------
(* Specifications: one per operation, and all together *)

SpecPk3  == InitPk3 /\ [][ParsePk3]_vars
SpecSave == InitSave /\ [][ParseSaveFile]_vars
SpecGci  == InitGci /\ [][ParseGciFile]_vars
SpecSum  == InitSum /\ [][VerifySection \/ FlipAndVerify]_vars
SpecList == InitList /\ [][ParseSaveFile \/ GetTransferablePokemon]_vars
SpecPar  == InitPar /\ [][ParStep]_vars
SpecCard == InitCard /\ [][AddSlot \/ RemoveSlot \/ ExportTeamToSlot]_vars
SpecLink == InitLink /\ [][CreateGbaLinkSession \/ TransferGbaToGcn \/ TransferGcnToGba \/ Disconnect]_vars
SpecTransfer == InitTransfer /\ [][CheckTransferCompatibility \/ CheckGbaToGcn \/ CheckGcnToGba]_vars

Init == InitPk3 \/ InitSave \/ InitGci \/ InitSum \/ InitTransfer \/ InitList \/ InitPar
          \/ InitCard \/ InitLink

Next ==
  \/ ParsePk3 \/ ParseSaveFile \/ ParseGciFile \/ VerifySection \/ FlipAndVerify
  \/ CheckTransferCompatibility \/ CheckGbaToGcn \/ CheckGcnToGba
  \/ GetTransferablePokemon
  \/ ParStep
  \/ AddSlot \/ RemoveSlot \/ ExportTeamToSlot
  \/ CreateGbaLinkSession \/ TransferGbaToGcn \/ TransferGcnToGba \/ Disconnect

Spec == Init /\ [][Next]_vars

---------------------------------------------------------------------------
(* Properties of the cartridge parser (SpecSave) *)

\* slot s of an input holds a section with this id
HasId(s, id) == \E i \in 1 .. GBA_SECTION_COUNT : s.layout[i] = id

\* slot s of an input holds a section with an id in 0..13
GivenValid(s) == \E i \in 1 .. GBA_SECTION_COUNT : s.layout[i] <= 13

SaveDone == call = "save" /\ pc = "done"

\* the species ids of a list of decoded records
SpeciesOf(pokemon) == [k \in 1 .. Len(pokemon) |-> pokemon[k].species_id]

\* C1 -- slot selection: when both slots of a full image are valid and hold a
\* section 0, the parse returns the data of the slot whose save index (the
\* u32 at 0xFFC of section 0) is higher, and of the first slot on a tie.
C1_SlotSelection ==
  (SaveDone /\ given.len = GBA_SAVE_SIZE /\ HasId(given.a, 0) /\ HasId(given.b, 0)) =>
    LET ia == given.a.idx
        ib == given.b.idx
        first == ia.hi > ib.hi \/ (ia.hi = ib.hi /\ ia.lo >= ib.lo)
    IN /\ cand_a.tag = "dict" /\ cand_b.tag = "dict"
       /\ result.tag = "GBASave"
       /\ result.info.slot_used = (IF first THEN 0 ELSE 1)
       /\ result.info.trainer_id = (IF first THEN given.a.tid ELSE given.b.tid)
       /\ SpeciesOf(result.party.pokemon) = (IF first THEN <<given.a.tid>> ELSE <<given.b.tid>>)

\* slot A has save index 3, slot B has 7, and slot B was returned
C1_Witness ==
  /\ SaveDone /\ given.len = GBA_SAVE_SIZE
  /\ HasId(given.a, 0) /\ HasId(given.b, 0)
  /\ given.a.idx = W(0, 3) /\ given.b.idx = W(0, 7)
  /\ result.tag = "GBASave" /\ result.info.slot_used = 1

\* exactly one slot of the input is valid: v names it, o the other
OneValid(v, o) == GivenValid(v) /\ ~GivenValid(o)

\* what C2 promises of the valid slot v at slot index n
ReturnsDataOf(v, n) ==
  /\ result.tag = "GBASave"
  /\ result.info.slot_used = n
  /\ result.info.trainer_id = v.tid

\* C2 -- single-valid-slot fallback: in a full two-slot image where exactly
\* one slot is valid and that slot holds a section 0, the parse returns that
\* slot's decoded data, at whichever offset the slot is.
C2_SingleValidSlot ==
  (SaveDone /\ given.len = GBA_SAVE_SIZE) =>
    /\ (OneValid(given.a, given.b) /\ HasId(given.a, 0) => ReturnsDataOf(given.a, 0))
    /\ (OneValid(given.b, given.a) /\ HasId(given.b, 0) => ReturnsDataOf(given.b, 1))

\* slot A has every footer id 99, slot B is valid and was returned
C2_Witness ==
  /\ SaveDone /\ given.len = GBA_SAVE_SIZE
  /\ given.a.layout = AllBad(99) /\ OneValid(given.b, given.a) /\ HasId(given.b, 0)
  /\ ReturnsDataOf(given.b, 1)

\* C2 as first stated: whenever exactly one slot is valid the parse returns
\* that slot's decoded data
C2_AnyValidSlotReturned ==
  (SaveDone /\ given.len = GBA_SAVE_SIZE) =>
    /\ (OneValid(given.a, given.b) => ReturnsDataOf(given.a, 0))
    /\ (OneValid(given.b, given.a) => ReturnsDataOf(given.b, 1))

\* C3 -- no valid slot: a slot none of whose sections has an id in 0..13 is
\* absent, a slot with such a section is present, and when every candidate
\* slot is absent the parse returns absent.
C3_NoValidSlot ==
  (SaveDone /\ given.len >= GBA_SLOT_SIZE) =>
    /\ IsNone(cand_a) = ~GivenValid(given.a)
    /\ (given.len >= GBA_SAVE_SIZE => IsNone(cand_b) = ~GivenValid(given.b))
    /\ (given.len < GBA_SAVE_SIZE => IsNone(cand_b))
    /\ (IsNone(cand_a) /\ IsNone(cand_b) => IsNone(result))

\* both slots of a full image have only invalid ids, and the parse is absent
C3_Witness ==
  /\ SaveDone /\ given.len = GBA_SAVE_SIZE
  /\ ~GivenValid(given.a) /\ ~GivenValid(given.b)
  /\ IsNone(cand_a) /\ IsNone(cand_b) /\ IsNone(result)

\* the slot of the input whose data the parse returned, and its built dict
Chosen     == IF result.info.slot_used = 0 THEN given.a ELSE given.b
ChosenDict == IF result.info.slot_used = 0 THEN cand_a ELSE cand_b

\* the stored count limited to [0,6]
Limit6(count) == IF count.hi > 0 \/ count.lo > 6 THEN 6 ELSE count.lo

\* the species of the first n given party records that are in [1,386]
Decodable(party, n) ==
  SelectSeq([k \in 1 .. Min(n, Len(party)) |-> party[k].species],
            LAMBDA sp : sp \in 1 .. 386)

\* C10 -- party-count clamp: whatever count section 1 stores, the party holds
\* at most 6 records, namely the decodable ones among the first min(6, count)
\* stored records (so a stored 9 with six decodable records gives exactly 6);
\* the windows read end inside the 4096-byte section 1; and the reported
\* count is the number of records in the party.
C10_PartyCountClamp ==
  (SaveDone /\ result.tag = "GBASave" /\ HasId(Chosen, 1)) =>
    LET n == Limit6(Chosen.count)
    IN /\ Len(result.party.pokemon) <= 6
       /\ SpeciesOf(result.party.pokemon) = Decodable(Chosen.party, n)
       /\ (Chosen.count = W(0, 9) /\ Len(Decodable(Chosen.party, 6)) = 6
             => Len(result.party.pokemon) = 6)
       /\ ChosenDict.d[1].len = GBA_SECTION_SIZE
       /\ PARTY_DATA_OFFSET + n * PK3_SIZE <= ChosenDict.d[1].len
       /\ result.party.count = Len(result.party.pokemon)

\* section 1 stores count 9 before nine decodable records; six were returned
C10_Witness ==
  /\ SaveDone /\ result.tag = "GBASave" /\ HasId(Chosen, 1)
  /\ Chosen.count = W(0, 9) /\ Len(Decodable(Chosen.party, 9)) = 9
  /\ Len(result.party.pokemon) = 6 /\ result.party.count = 6

\* every record of every box of the result
BoxRecords ==
  UNION {{result.boxes[b].pokemon[k] : k \in 1 .. Len(result.boxes[b].pokemon)} :
           b \in 1 .. Len(result.boxes)}

\* C6 -- storage-record level: every record decoded from a storage box has
\* the level estimated from its experience, in [1,100], and every other
\* status field zero.
C6_BoxLevelEstimated ==
  (SaveDone /\ result.tag = "GBASave") =>
    \A p \in BoxRecords :
      /\ p.level = _exp_to_level(p.species_id, p.experience)
      /\ p.level \in 1 .. 100
      /\ p.status_condition = W(0, 0) /\ p.pokerus_days = 0
      /\ \A i \in 1 .. 7 : p.stats[i] = 0

---------------------------------------------------------------------------
(* Properties of all operations (Spec) and of the record codec (SpecPk3)   *)

\* C4 -- bounds safety: whatever the length and content of the input, no
\* parse of the cartridge parser, the record codec or the memory-card parser
\* ends in an unhandled fault: each returns a result of its declared shape,
\* and an input too short to hold the fields read gives absent.
C4_BoundsSafety ==
  pc = "done" =>
    /\ ~IsFault(result) /\ ~IsFault(cand_a) /\ ~IsFault(cand_b)
    /\ call = "pk3" =>
         /\ result.tag \in {"None", "PK3Pokemon"}
         /\ input.len < PK3_HEADER_SIZE + PK3_DATA_SIZE => IsNone(result)
    /\ call = "save" =>
         /\ result.tag \in {"None", "GBASave"}
         /\ cand_a.tag \in {"None", "dict"} /\ cand_b.tag \in {"None", "dict"}
         /\ input.len < GBA_SLOT_SIZE => IsNone(result)
         /\ input.len < GBA_SAVE_SIZE => IsNone(cand_b)
    /\ call = "gci" =>
         /\ result.tag = "pair"
         /\ result.header.tag \in {"None", "GCIHeader"}
         /\ result.slot.tag \in {"None", "MemoryCardSlot"}
         /\ input.len < GCI_HEADER_SIZE => IsNone(result.header) /\ IsNone(result.slot)
         /\ ~IsNone(result.slot) =>
              \A k \in 1 .. Len(result.slot.party) :
                GCI_HEADER_SIZE + GcPartyOff(given.game_id)
                  + (result.slot.party[k].slot_index + 1) * GcPokeSize(given.game_id)
                  <= input.len

\* a memory-card file cut one byte short of its sixth record was parsed: the
\* five records that fit were returned
C4_Witness ==
  /\ call = "gci" /\ pc = "done"
  /\ input.len = GcFullLen(given.game_id) - 1
  /\ ~IsNone(result.slot) /\ Len(result.slot.party) = 5

InRange(species) == species \in 1 .. 386

\* every record of the party and the boxes of the result
SaveRecords ==
  {result.party.pokemon[k] : k \in 1 .. Len(result.party.pokemon)} \cup BoxRecords

\* C5 -- species presence: the cartridge record codec returns a record
\* exactly when the species id it decodes is in [1,386] (386 decodes; 0, 387
\* and larger ids give absent), the memory-card codec likewise, and every
\* record of a party or box that is returned has its species id in [1,386].
C5_SpeciesPresence ==
  pc = "done" =>
    /\ call = "pk3" =>
         /\ ~IsNone(result) => InRange(result.species_id)
                               /\ result.species_id = given.rec.species
         /\ given.len >= PK3_HEADER_SIZE + PK3_DATA_SIZE =>
              (~IsNone(result) <=> InRange(given.rec.species))
    /\ (call = "gci" /\ ~IsNone(result.slot)) =>
         /\ \A k \in 1 .. Len(result.slot.party) :
              /\ InRange(result.slot.party[k].species_id)
              /\ result.slot.party[k].species_id =
                   given.party[result.slot.party[k].slot_index + 1].species
         /\ (given.len = GcFullLen(given.game_id)
               /\ result.slot.game \in {"COLOSSEUM", "XD_GALE"}) =>
              \A i \in 1 .. 6 :
                (\E k \in 1 .. Len(result.slot.party) :
                    result.slot.party[k].slot_index = i - 1)
                <=> InRange(given.party[i].species)
    /\ (call = "save" /\ result.tag = "GBASave") =>
         \A p \in SaveRecords : InRange(p.species_id)

\* a record storing species 386 was decoded
C5_Witness ==
  /\ call = "pk3" /\ pc = "done"
  /\ given.rec.species = 386
  /\ result.tag = "PK3Pokemon" /\ result.species_id = 386

\* the header words and the stored payload of the record given to the codec
InputPv  == unpack_I(input, 0)
InputKey == XorW(unpack_I(input, 0), unpack_I(input, 4))
InputPayload == Slice(input, PK3_HEADER_SIZE, PK3_HEADER_SIZE + PK3_DATA_SIZE)

HasPayload == call = "pk3" /\ pc = "done" /\ given.len >= PK3_HEADER_SIZE + PK3_DATA_SIZE

\* a XOR b for a, b in 0 .. 65535, bit by bit
BitXor(a, b) ==
  LET bit(i) == ((a \div Pow2(i)) + (b \div Pow2(i))) % 2
  IN bit(0) + 2 * bit(1) + 4 * bit(2) + 8 * bit(3) + 16 * bit(4) + 32 * bit(5)
     + 64 * bit(6) + 128 * bit(7) + 256 * bit(8) + 512 * bit(9) + 1024 * bit(10)
     + 2048 * bit(11) + 4096 * bit(12) + 8192 * bit(13) + 16384 * bit(14)
     + 32768 * bit(15)

\* public id XOR secret id XOR high half of pv XOR low half of pv, of the
\* record given
GivenShinyValue ==
  BitXor(BitXor(given.rec.otid.lo, given.rec.otid.hi),
         BitXor(given.rec.pv.hi, given.rec.pv.lo))

\* C24 -- owner id split and shininess: the public trainer id of a decoded
\* record is the low 16 bits and its secret id the high 16 bits of the owner
\* id word, and the record is shiny exactly when public id XOR secret id XOR
\* high half of pv XOR low half of pv is below 8.
C24_OwnerIdAndShiny ==
  (call = "pk3" /\ pc = "done" /\ ~IsNone(result)) =>
    /\ result.ot_id = given.rec.otid.lo
    /\ result.ot_secret_id = given.rec.otid.hi
    /\ result.is_shiny = (GivenShinyValue < 8)

\* a record of owner 0xABCD1234 whose four halves XOR to 7 was decoded as
\* shiny
C24_Witness ==
  /\ call = "pk3" /\ pc = "done" /\ ~IsNone(result)
  /\ given.rec.otid = W(43981, 4660) /\ GivenShinyValue = 7
  /\ result.ot_id = 4660 /\ result.ot_secret_id = 43981 /\ result.is_shiny

\* C7 -- payload cipher: the key is the personality value XOR the owner-id
\* word; decryption XORs each of the twelve little-endian words of the
\* 48-byte payload with that key, which gives the plain substructure bytes;
\* and decrypting twice with the key gives back the stored 48 bytes.
C7_CipherRoundTrip ==
  HasPayload =>
    LET decrypted == _decrypt_pk3_data(InputPayload, InputKey)
    IN /\ InputKey = XorW(given.rec.pv, given.rec.otid)
       /\ InputPayload.len = 48 /\ decrypted.len = 48
       /\ \A w \in 0 .. 11 :
            unpack_I(decrypted, 4 * w) = XorW(unpack_I(InputPayload, 4 * w), InputKey)
       /\ BytesEq(decrypted, FromSeq(PlainPayload(given.rec)))
       /\ BytesEq(_decrypt_pk3_data(decrypted, InputKey), InputPayload)
       /\ ~IsNone(result) => /\ result.experience = given.rec.exp
                             /\ result.evs = given.rec.evs

\* a record stored under a key with bits set in all four bytes was decoded
C7_Witness ==
  /\ HasPayload
  /\ InputKey = W(21554, 4659)
  /\ ~BytesEq(_decrypt_pk3_data(InputPayload, InputKey), InputPayload)
  /\ result.tag = "PK3Pokemon" /\ result.experience = W(0, 1000)

\* the payload whose byte at offset k is k + 1
Offsets48 == MkBytes(48, [k \in 0 .. 47 |-> k + 1])

\* the offsets (plus one) a 12-byte block holds
BlockOffsets(block) == {block.b[k] : k \in DOMAIN block.b}

\* C8 -- substructure permutation: the order table has 24 entries, each a
\* permutation of G, A, E, M, pairwise distinct; personality value mod 24
\* selects one; and the four 12-byte blocks it assigns cover the 48 payload
\* bytes with no overlap and no gap, each substructure getting the block the
\* hardware stored it in.
C8_SubstructurePermutation ==
  /\ Len(SUBSTRUCTURE_ORDER) = 24
  /\ \A i \in 1 .. 24 :
       /\ Len(SUBSTRUCTURE_ORDER[i]) = 4
       /\ {SUBSTRUCTURE_ORDER[i][j] : j \in 1 .. 4} = {"G", "A", "E", "M"}
       /\ \A j \in 1 .. 24 : SUBSTRUCTURE_ORDER[i] = SUBSTRUCTURE_ORDER[j] => i = j
  /\ HasPayload =>
       LET idx     == ModW(InputPv, 24)
           sub_map == SubMap(OrderOf(InputPv), Offsets48)
       IN /\ idx \in 0 .. 23
          /\ OrderOf(InputPv) = SUBSTRUCTURE_ORDER[idx + 1]
          /\ OrderOf(InputPv) = HardwareOrder(idx)
          /\ DOMAIN sub_map = {"G", "A", "E", "M"}
          /\ \A l \in DOMAIN sub_map : Cardinality(BlockOffsets(sub_map[l])) = 12
          /\ \A l, m \in DOMAIN sub_map :
               l # m => BlockOffsets(sub_map[l]) \cap BlockOffsets(sub_map[m]) = {}
          /\ UNION {BlockOffsets(sub_map[l]) : l \in DOMAIN sub_map} = 1 .. 48
          /\ ~IsNone(result) => /\ result.species_id = given.rec.species
                                /\ result.iv_egg_ability = given.rec.ivword

\* a record whose personality value selects the last entry of the table was
\* decoded
C8_Witness ==
  /\ HasPayload
  /\ ModW(InputPv, 24) = 23 /\ InputPv.hi = 65535
  /\ result.tag = "PK3Pokemon" /\ result.species_id = 386

\* the six IV fields of a cartridge record against the word they come from
IvsOf(p) ==
  LET w == p.iv_egg_ability
  IN /\ \A i \in 1 .. 6 : p.ivs[i] \in 0 .. 31
     /\ p.ivs[1] + 32 * p.ivs[2] + 1024 * p.ivs[3] + 32768 * (p.ivs[4] % 2) = w.lo
     /\ (p.ivs[4] \div 2) + 16 * p.ivs[5] + 512 * p.ivs[6] = w.hi % 16384
     /\ p.is_egg = ((w.hi \div 16384) % 2 = 1)
     /\ p.ability_slot = w.hi \div 32768

\* the six IV fields of a memory-card record
GcIvs(p) == <<p.hp_iv, p.atk_iv, p.def_iv, p.spa_iv, p.spd_iv, p.spe_iv>>

\* C9 -- IV unpack/repack: the six IV fields of a cartridge record are each
\* in [0,31], put back at bit offsets 0, 5, .. 25 they give the low 30 bits
\* of the iv/egg/ability word, is-egg is bit 30 and the ability slot bit 31;
\* the six IV fields of a memory-card record are each in [0,31].
C9_IvUnpackRepack ==
  pc = "done" =>
    /\ (call = "pk3" /\ ~IsNone(result)) =>
         IvsOf(result) /\ result.iv_egg_ability = given.rec.ivword
    /\ (call = "save" /\ result.tag = "GBASave") => \A p \in SaveRecords : IvsOf(p)
    /\ (call = "gci" /\ ~IsNone(result.slot)) =>
         \A k \in 1 .. Len(result.slot.party) :
           \A i \in 1 .. 6 : GcIvs(result.slot.party[k])[i] \in 0 .. 31

\* a record whose word has all 32 bits set was decoded: six fields of 31, an
\* egg, ability slot 1
C9_Witness ==
  /\ call = "pk3" /\ pc = "done"
  /\ result.tag = "PK3Pokemon"
  /\ result.iv_egg_ability = W(65535, 65535)
  /\ result.ivs = <<31, 31, 31, 31, 31, 31>>
  /\ result.is_egg /\ result.ability_slot = 1

---------------------------------------------------------------------------
(* Properties of the extractor, the section assembler and the size checks *)

\* the storage sections slot s holds, and whether they are 5, 6, .. with no gap
StoredSections(s) == {id \in SECTION_PC_BUFFER_A .. GBA_SECTION_COUNT - 1 : HasId(s, id)}
StoredPrefix(s) ==
  StoredSections(s) = SECTION_PC_BUFFER_A .. SECTION_PC_BUFFER_A + Cardinality(StoredSections(s)) - 1

\* the species of the decodable records given for box b (0..13) of slot s,
\* in ascending slot order
BoxExpected(s, b) ==
  LET size == Cardinality(StoredSections(s)) * GBA_FOOTER_OFFSET
      fits(k) == 4 + (k + 1) * PC_POKEMON_SIZE <= size
      box_slots == [k \in 1 .. PC_BOX_SIZE |-> b * PC_BOX_SIZE + k - 1]
      held == SelectSeq(box_slots, LAMBDA k : k \in DOMAIN s.box /\ fits(k) /\ InRange(s.box[k].species))
  IN [i \in 1 .. Len(held) |-> s.box[held[i]].species]

\* C11 -- per-record failure isolation: a party or box record whose species
\* id is 0 or above 386 is skipped alone; the party is the decodable ones of
\* the records read and every box holds the decodable ones of its records,
\* each in ascending slot order.
C11_RecordIsolation ==
  (SaveDone /\ result.tag = "GBASave" /\ HasId(Chosen, 1) /\ StoredPrefix(Chosen)) =>
    /\ SpeciesOf(result.party.pokemon)
         = Decodable(Chosen.party, Limit6(Chosen.count))
    /\ \A b \in 1 .. Len(result.boxes) :
         /\ result.boxes[b].box_index = b - 1
         /\ SpeciesOf(result.boxes[b].pokemon) = BoxExpected(Chosen, b - 1)
    /\ (StoredSections(Chosen) # {}) => Len(result.boxes) = PC_BOX_COUNT

\* the first party record and the second record of box 2 were undecodable;
\* the two other party records, the three records of box 1 and the other
\* record of box 2 were returned
C11_Witness ==
  /\ SaveDone /\ result.tag = "GBASave"
  /\ \E k \in 1 .. Len(Chosen.party) : ~InRange(Chosen.party[k].species)
  /\ \E k \in DOMAIN Chosen.box : ~InRange(Chosen.box[k].species)
  /\ SpeciesOf(result.party.pokemon) = <<102, 103>>
  /\ SpeciesOf(result.boxes[1].pokemon) = <<150, 151, 152>>
  /\ SpeciesOf(result.boxes[2].pokemon) = <<180>>

\* the slots built by the parse, with the slot of the input each was built from
BuiltSlots ==
  {x \in {<<cand_a, given.a>>, <<cand_b, given.b>>} : x[1].tag = "dict"}

\* the ids in 0..13 among the section ids of the input slot s
IdsKept(s) == {s.layout[i] : i \in 1 .. GBA_SECTION_COUNT} \cap (0 .. GBA_SECTION_COUNT - 1)

\* C12 -- soft checksum failure: a built slot keeps every section with an id
\* in 0..13 whether or not its checksum matches, and holds with each section
\* a checksum-valid flag that is false exactly when the stored checksum
\* differs from the computed one.
C12_SoftChecksumFlag ==
  SaveDone =>
    \A x \in BuiltSlots :
      /\ DOMAIN x[1].d = IdsKept(x[2])
      /\ \A id \in DOMAIN x[1].d :
           /\ "checksum_valid" \in DOMAIN x[1].d[id]
           /\ x[1].d[id].checksum_valid = _verify_section_checksum(x[1].d[id])

\* the section at physical position i (0..13) of the slot at this offset
PhysicalSection(offset, i) ==
  Slice(input, offset + i * GBA_SECTION_SIZE, offset + (i + 1) * GBA_SECTION_SIZE)

\* the last physical position of slot s that holds section id `id`
LastWithId(s, id) ==
  CHOOSE i \in 1 .. GBA_SECTION_COUNT :
    s.layout[i] = id /\ \A j \in 1 .. GBA_SECTION_COUNT : s.layout[j] = id => j <= i

\* the candidates, each with the slot given for it, its offset in the image
\* and whether the image is long enough for the slot to be read
Candidates ==
  {<<cand_a, given.a, 0, given.len >= GBA_SLOT_SIZE>>,
   <<cand_b, given.b, GBA_SLOT_SIZE, given.len >= GBA_SAVE_SIZE>>}

\* C15 -- section id filter: a section whose footer id is above 13 is dropped
\* and the slot is still built from the other sections; a built slot is
\* indexed by exactly the ids in 0..13 found in it, one section per id (the
\* physically last one with that id), so it has at most 14 entries.
C15_SectionIdFilter ==
  SaveDone =>
    \A x \in Candidates :
      /\ (x[4] /\ \E i \in 1 .. GBA_SECTION_COUNT : x[2].layout[i] <= 13)
           => x[1].tag = "dict"
      /\ x[1].tag = "dict" =>
           /\ DOMAIN x[1].d \subseteq 0 .. 13
           /\ Cardinality(DOMAIN x[1].d) <= 14
           /\ DOMAIN x[1].d = {x[2].layout[i] : i \in 1 .. GBA_SECTION_COUNT} \cap (0 .. 13)
           /\ \A id \in DOMAIN x[1].d :
                /\ unpack_H(x[1].d[id], GBA_SECTION_ID_OFF) = id
                /\ BytesEq(x[1].d[id], PhysicalSection(x[3], LastWithId(x[2], id) - 1))

\* a slot with a section of id 99 and sections 1..4 was built from the four,
\* and a slot with thirteen sections of id 14 from its one section 13
C15_Witness ==
  /\ SaveDone
  /\ given.a.layout = No0(99) /\ cand_a.tag = "dict" /\ DOMAIN cand_a.d = 1 .. 4
  /\ given.b.layout = Only13 /\ cand_b.tag = "dict" /\ DOMAIN cand_b.d = {13}

\* C18 -- cartridge image size handling: a buffer shorter than 0xE000 bytes
\* fails the whole parse; from 0xE000 bytes on the slot at offset 0 is a
\* candidate; the slot at offset 0xE000 is a candidate exactly when the
\* buffer has at least 0x20000 bytes, so a shorter buffer is parsed from its
\* first slot alone.
C18_ImageSizeHandling ==
  SaveDone =>
    /\ GBA_SLOT_SIZE = 57344 /\ GBA_SAVE_SIZE = 131072
    /\ given.len < 57344 => IsNone(result) /\ IsNone(cand_a) /\ IsNone(cand_b)
    /\ given.len >= 57344 => (cand_a.tag = "dict") = GivenValid(given.a)
    /\ (cand_b.tag = "dict") = (given.len >= 131072 /\ GivenValid(given.b))
    /\ (given.len >= 57344 /\ given.len < 131072) =>
         /\ IsNone(cand_b)
         /\ (GivenValid(given.a) /\ HasId(given.a, 0)) => ReturnsDataOf(given.a, 0)
         /\ ~GivenValid(given.a) => IsNone(result)

\* an image one byte short of two slots, whose second slot is valid and has
\* the higher save index, was parsed from its first slot
C18_Witness ==
  /\ SaveDone /\ given.len = 131071
  /\ GivenValid(given.b) /\ given.b.idx = W(0, 7) /\ given.a.idx = W(0, 3)
  /\ IsNone(cand_b) /\ ReturnsDataOf(given.a, 0)

\* the bytes of the storage buffer given for slot s: its records at their
\* offsets in the nine data areas taken in id order
GivenBuffer(s) == MkBytes((GBA_SECTION_COUNT - SECTION_PC_BUFFER_A) * GBA_FOOTER_OFFSET, PcMap(s))

\* what the parse returns for the same slot with its sections in id order
InIdOrder == parse_save_file(Image([given EXCEPT !.a.layout = Rot(0)])).ret

\* the fourteen sections of slot s have the fourteen ids 0..13
AllIds(s) == {s.layout[i] : i \in 1 .. GBA_SECTION_COUNT} = 0 .. GBA_SECTION_COUNT - 1

\* C20 -- storage buffer ordered by section id: for a slot whose fourteen
\* sections have distinct ids, in whatever physical order, the storage
\* buffer is the data areas of sections 5..13 in ascending id order, and the
\* decoded party and boxes are those of the slot with its sections in id
\* order.
C20_BufferInIdOrder ==
  (SaveDone /\ given.len = GBA_SLOT_SIZE /\ AllIds(given.a)) =>
    /\ result.tag = "GBASave"
    /\ BytesEq(PcData(cand_a, SECTION_PC_BUFFER_A), GivenBuffer(given.a))
    /\ \A b \in 1 .. PC_BOX_COUNT :
         SpeciesOf(result.boxes[b].pokemon) = BoxExpected(given.a, b - 1)
    /\ result.party = InIdOrder.party
    /\ result.boxes = InIdOrder.boxes

\* a slot with its sections in reverse physical order was decoded: the record
\* lying across sections 5 and 6 is the second of box 2, the record in
\* section 13 the last of box 14
C20_Witness ==
  /\ SaveDone /\ given.len = GBA_SLOT_SIZE
  /\ given.a.layout = Perm(13, 7) /\ DOMAIN given.a.box = {0, 50, 51, 52, 419}
  /\ result.tag = "GBASave"
  /\ SpeciesOf(result.boxes[1].pokemon) = <<386>>
  /\ SpeciesOf(result.boxes[2].pokemon) = <<200, 201, 202>>
  /\ SpeciesOf(result.boxes[14].pokemon) = <<169>>

\* the text the name of box b (0..13) of slot s reads as; a slot that gives
\* no names holds zeros there
GivenNameText(s, b) == IF "names" \in DOMAIN s THEN PatternOf(s.deal, b).text ELSE <<>>

\* "Box N" as text
BoxNText(n) == <<189, 234, 243, 0>> \o (IF n < 10 THEN <<161 + n>> ELSE <<162, 151 + n>>)

\* the number of records in the boxes b .. 14
RECURSIVE RecordsFrom(_)
RecordsFrom(b) ==
  IF b > Len(result.boxes) THEN 0 ELSE Len(result.boxes[b].pokemon) + RecordsFrom(b + 1)

\* C21 -- box layout: when a storage section (5..13) is present the parse
\* returns 14 boxes with box_index 0..13 in order, each with at most 30
\* records and at most 420 together; box b slot s is read from the 80 bytes
\* at offset 4 + (30 b + s) * 80 of the storage buffer; a box whose 9-byte
\* name lies outside the buffer or reads as the empty text is named "Box N"
\* with N = b + 1, any other box has the name read; with no storage section
\* present the list of boxes is empty.
C21_BoxLayout ==
  (SaveDone /\ result.tag = "GBASave") =>
    LET size == Cardinality(StoredSections(Chosen)) * 4088
    IN /\ StoredSections(Chosen) = {} => result.boxes = <<>>
       /\ StoredSections(Chosen) # {} =>
            /\ Len(result.boxes) = 14
            /\ RecordsFrom(1) <= 420
            /\ \A b \in 1 .. 14 :
                 /\ result.boxes[b].box_index = b - 1
                 /\ Len(result.boxes[b].pokemon) <= 30
                 /\ result.boxes[b].name =
                      IF 33604 + 9 * b > size \/ GivenNameText(Chosen, b - 1) = <<>>
                      THEN BoxNText(b) ELSE GivenNameText(Chosen, b - 1)
                 /\ StoredPrefix(Chosen) =>
                      SpeciesOf(result.boxes[b].pokemon) = BoxExpected(Chosen, b - 1)

\* a slot with all nine storage sections and stored names was decoded: box 1
\* is named "ABC" and holds the records of slots 0 and 29, box 2 has a name
\* that starts with the terminator and is named "Box 2", box 14 holds the
\* record of slot 419
C21_Witness ==
  /\ SaveDone /\ result.tag = "GBASave"
  /\ StoredSections(Chosen) = 5 .. 13 /\ "names" \in DOMAIN Chosen /\ Chosen.deal = 0
  /\ result.boxes[1].name = <<188, 189, 190>>
  /\ SpeciesOf(result.boxes[1].pokemon) = <<150, 179>>
  /\ result.boxes[2].name = <<189, 234, 243, 0, 163>>
  /\ SpeciesOf(result.boxes[2].pokemon) = <<180>>
  /\ SpeciesOf(result.boxes[14].pokemon) = <<169>>

GciDone == call = "gci" /\ pc = "done"

\* the title of a game id, from the ids themselves
TitleOf(game_id) ==
  IF game_id \in {<<71, 67, 54, 69>>, <<71, 67, 54, 74>>, <<71, 67, 54, 80>>} THEN "COLOSSEUM"
  ELSE IF game_id \in {<<71, 88, 88, 69>>, <<71, 88, 88, 74>>, <<71, 88, 88, 80>>} THEN "XD_GALE"
  ELSE "other"

\* the positions 0..5, in order, of the records of the given party whose
\* window of `stride` bytes from `base` on ends inside the len - 64 bytes of
\* data and whose species is in [1,386]
ReadablePositions(base, stride) ==
  SelectSeq(<<0, 1, 2, 3, 4, 5>>,
            LAMBDA i : /\ base + (i + 1) * stride <= given.len - 64
                       /\ given.party[i + 1].species \in 1 .. 386)

\* the names of the 25 natures, in table order
NatureNames ==
  <<"Hardy", "Lonely", "Brave", "Adamant", "Naughty", "Bold", "Docile", "Relaxed",
    "Impish", "Lax", "Timid", "Hasty", "Serious", "Jolly", "Naive", "Modest", "Mild",
    "Quiet", "Bashful", "Rash", "Calm", "Gentle", "Sassy", "Careful", "Quirky">>

\* C23 -- memory-card shadow fields: every decoded memory-card record has a
\* shadow level in [0,5]: 0 when its shadow flag byte is zero, else the
\* shadow-level byte limited to 5; it is shadow exactly when the flag byte is
\* not zero; its nature is the table entry at the nature byte mod 25.
C23_GcShadowFields ==
  (GciDone /\ ~IsNone(result.slot)) =>
    \A k \in 1 .. Len(result.slot.party) :
      LET p == result.slot.party[k]
          c == given.party[p.slot_index + 1]
      IN /\ p.shadow_level \in 0 .. 5
         /\ p.is_shadow = (c.shadow # 0)
         /\ c.shadow = 0 => p.shadow_level = 0
         /\ c.shadow # 0 => p.shadow_level = (IF c.slevel > 5 THEN 5 ELSE c.slevel)
         /\ p.nature = NatureNames[(c.nature % 25) + 1]

\* a record with flag byte 0 and shadow-level byte 255 was decoded with
\* shadow level 0, and one with flag byte 255 and shadow-level byte 6 with 5
C23_Witness ==
  /\ GciDone /\ ~IsNone(result.slot) /\ Len(result.slot.party) = 6
  /\ given.party[1].nature = 49 /\ result.slot.party[1].nature = "Quirky"
  /\ \/ /\ given.party[1].shadow = 0 /\ given.party[1].slevel = 255
        /\ result.slot.party[1].shadow_level = 0
     \/ /\ given.party[1].shadow = 255 /\ given.party[1].slevel = 6
        /\ result.slot.party[1].shadow_level = 5

\* C22 -- memory-card party extraction: for a Colosseum export the party is
\* read from offset 0x498 of the data in records of 0x138 bytes, for an XD
\* export from 0x4A8 in records of 0x196 bytes; at most 6 records; the read
\* stops at the first record that would end past the data, so a cut export
\* gives the records that fit and never a failure; each record returned
\* keeps its position as slot_index.
C22_GcPartyExtraction ==
  (GciDone /\ given.len >= 64 /\ TitleOf(given.game_id) # "other") =>
    LET want == IF TitleOf(given.game_id) = "COLOSSEUM"
                THEN ReadablePositions(1176, 312) ELSE ReadablePositions(1192, 406)
        party == result.slot.party
    IN /\ result.slot.tag = "MemoryCardSlot"
       /\ result.slot.game = TitleOf(given.game_id)
       /\ Len(party) <= 6
       /\ [k \in 1 .. Len(party) |-> party[k].slot_index] = want
       /\ \A k \in 1 .. Len(party) :
            party[k].species_id = given.party[party[k].slot_index + 1].species

\* an XD export cut one byte short of its fourth record, whose first record
\* has species 0, was parsed: the records at positions 1 and 2 were returned
C22_Witness ==
  /\ GciDone /\ TitleOf(given.game_id) = "XD_GALE"
  /\ given.len = 64 + 1192 + 4 * 406 - 1
  /\ given.party[1].species = 0
  /\ [k \in 1 .. Len(result.slot.party) |-> result.slot.party[k].slot_index] = <<1, 2>>


\* C17 -- unknown game identifier is not fatal: for an export of at least 64
\* bytes whose game id is not a key of the known table the parse returns the
\* parsed header and a slot of game UNKNOWN with an empty party; header and
\* slot are both absent exactly when the export is shorter than 64 bytes.
C17_UnknownGameNotFatal ==
  GciDone =>
    /\ (given.game_id \notin KNOWN_GAME_IDS /\ given.len >= 64) =>
         /\ result.header.tag = "GCIHeader"
         /\ result.header.game_id = given.game_id
         /\ result.slot.tag = "MemoryCardSlot"
         /\ result.slot.game = "UNKNOWN"
         /\ result.slot.party = <<>>
    /\ (IsNone(result.header) /\ IsNone(result.slot)) <=> given.len < 64
    /\ IsNone(result.header) <=> IsNone(result.slot)

\* the export b'GPXP' with a full party area was parsed into an UNKNOWN slot
C17_Witness ==
  /\ GciDone
  /\ given.game_id = GPX(80) /\ given.len = GcFullLen(GPX(80))
  /\ result.header.tag = "GCIHeader"
  /\ result.slot.game = "UNKNOWN" /\ result.slot.party = <<>>

---------------------------------------------------------------------------
(* Properties of the section checksum (SpecSum) *)

SumDone == call = "sum" /\ pc # "start" /\ given.len = GBA_SECTION_SIZE

\* the section as first given, before any bit is inverted
GivenSection == SectionBytes(given)

\* C13 -- checksum algorithm: the computed checksum of a section is the sum
\* of the 32-bit little-endian words of its first 0xFF8 bytes, folded as
\* upper half plus lower half and cut to 16 bits (the carry out of bit 15 is
\* dropped); the section verifies exactly when that equals the stored
\* checksum.
C13_ChecksumFold ==
  (SumDone /\ pc = "verified") =>
    /\ result.checksum = CutTo16(given)
    /\ result.checksum \in 0 .. 65535
    /\ result.valid = (given.stored = CutTo16(given))

\* a section whose word sum has upper half plus lower half above 0xFFFF was
\* verified
C13_Witness ==
  /\ SumDone /\ pc = "verified"
  /\ HalvesSum(given) > 65535
  /\ given.stored = CutTo16(given) /\ result.valid

\* C13 as stated: the computed checksum is the end-around-carry fold, the
\* carry out of bit 15 of upper half plus lower half added back in.
C13_EndAroundCarry ==
  (SumDone /\ pc = "verified") => result.checksum = CarryAdded(given)

\* C14 -- checksum determinism and bit sensitivity: computing the checksum
\* again over the same section bytes gives the same value, and inverting one
\* bit of the first 0xFF8 bytes changes the computed checksum.
C14_ChecksumSensitivity ==
  SumDone =>
    /\ ComputedChecksum(input) = result.checksum
    /\ pc = "done" =>
         /\ cand_a.checksum = ComputedChecksum(GivenSection)
         /\ ~BytesEq(input, GivenSection)
         /\ result.checksum # cand_a.checksum

\* bit 31 of a word was inverted in a section whose word sum passes 2^32
C14_Witness ==
  /\ SumDone /\ pc = "done"
  /\ given.flip = <<3, 7>> /\ given.fill = 2 /\ given.first = W(65535, 1)
  /\ result.checksum # cand_a.checksum

---------------------------------------------------------------------------
(* Properties of the transfer evaluators (SpecTransfer) *)

TransferDone == call = "transfer" /\ pc = "done"

\* the verdict a returned pair stands for: the enumeration value itself, or,
\* for a (can_transfer, reason) pair, Compatible when can_transfer, Requires
\* purify when refused with one of the two shadow reasons, else Incompatible
VerdictClass(by, r) ==
  IF by = "check_transfer_compatibility" THEN r.verdict
  ELSE IF r.verdict THEN COMPATIBLE
  ELSE IF r.reason = ShadowToGba \/ r.reason = ShadowUnpurified THEN REQUIRES_PURIFY
  ELSE INCOMPATIBLE

\* the verdict of the first matching rule in the stated order
RuleVerdict(g) ==
  IF g.is_egg THEN INCOMPATIBLE
  ELSE IF g.species_id < 1 \/ g.species_id > 386 THEN INCOMPATIBLE
  ELSE IF g.is_shadow THEN REQUIRES_PURIFY
  ELSE IF g.level < 1 \/ g.level > 100 THEN INCOMPATIBLE
  ELSE IF TotalEvs(g) > 510 THEN INCOMPATIBLE
  ELSE COMPATIBLE

\* C16 -- transfer verdict rules: the verdict for a record is that of the
\* first matching rule in the order egg -> Incompatible, species id outside
\* [1,386] -> Incompatible, shadow -> RequiresPurify, level outside [1,100]
\* -> Incompatible, effort values above 510 -> Incompatible, otherwise
\* Compatible.
C16_TransferRuleOrder ==
  TransferDone => VerdictClass(given.by, result) = RuleVerdict(given)

---------------------------------------------------------------------------
(* Properties of the transferable lists (SpecList) *)

Listed == call = "list" /\ pc = "listed"

\* the evaluator judges the record Compatible
JudgedCompatible(p) == check_transfer_compatibility(p).verdict = COMPATIBLE

\* the locations get_transferable_pokemon returned
LocationsListed == {transferable.located[k].location : k \in 1 .. Len(transferable.located)}

\* C19 -- transferable list agrees with the evaluator: a decoded record of
\* the party or of a storage box is listed by get_transferable_pokemon, and
\* by GBASave.transferable_pokemon, exactly when check_transfer_compatibility
\* judges it Compatible.
C19_ListAgreesWithEvaluator ==
  Listed =>
    /\ \A i \in 1 .. Len(result.party.pokemon) :
         (<<"party", i - 1>> \in LocationsListed) = JudgedCompatible(result.party.pokemon[i])
    /\ \A b \in 1 .. Len(result.boxes) : \A i \in 1 .. Len(result.boxes[b].pokemon) :
         (<<"box", result.boxes[b].box_index, i - 1>> \in LocationsListed)
           = JudgedCompatible(result.boxes[b].pokemon[i])
    /\ transferable.pokemon = SelectSeq(all_pokemon(result), JudgedCompatible)


---------------------------------------------------------------------------
(* Properties of concurrent parse calls (SpecPar) *)

\* thread t has built its first slot and has not returned
HoldsSlotA(t) == frames.pos[t] \in {"slot_b", "pick", "decode"}
\* thread t has built its second slot and has not returned
HoldsSlotB(t) == frames.pos[t] \in {"pick", "decode"}

\* C25 -- parse calls are independent: however the steps of two calls are
\* interleaved, neither buffer changes, a slot a call has built stays the
\* slot _parse_slot built from that call's buffer, and each call returns what
\* parse_save_file returns for its buffer when it runs alone.
C25_ParseCallsIndependent ==
  call = "par" =>
    /\ input = <<Image(given[1]), Image(given[2])>>
    /\ \A t \in Callers :
         /\ HoldsSlotA(t) => frames.local[t].slot_a = _parse_slot(input[t], 0)
         /\ HoldsSlotB(t) /\ SecondSlotPresent(input[t])
              => frames.local[t].slot_b = _parse_slot(input[t], GBA_SLOT_SIZE)
         /\ frames.pos[t] = "done" => result.ret[t] = parse_save_file(input[t]).ret

\* two calls on different buffers are both under way: the first has chosen
\* its second slot and is about to decode it, the second has built both of
\* its slots, and the slots the two hold differ
C25_Witness ==
  /\ call = "par" /\ input[1] # input[2]
  /\ frames.pos[1] = "decode" /\ frames.local[1].sections = "b"
  /\ frames.pos[2] = "pick"
  /\ frames.local[1].slot_a # frames.local[2].slot_a
  /\ frames.local[1].slot_b # frames.local[2].slot_b

---------------------------------------------------------------------------
(* Section 0 and the choice of slot (SpecSave) *)

\* the slot of the input that _pick_best_slot chose from the two built slots
Selected == IF _pick_best_slot(cand_a, cand_b) = "a" THEN given.a ELSE given.b

\* slot s of the input is valid and has a readable party section and
\* storage sections
HasPartyAndBoxes(s) == HasId(s, 1) /\ StoredSections(s) # {}

\* C26 -- section 0 is required: a built slot without section 0 has save
\* index -1; of two valid slots of which one has section 0 that one is
\* returned, and of two valid slots without section 0 the one at offset 0 is
\* chosen; and whenever the chosen slot has no section 0 the parse is absent.
C26_Section0Required ==
  (SaveDone /\ given.len >= GBA_SLOT_SIZE /\ ~IsFault(result)) =>
    /\ (~IsNone(cand_a) /\ ~HasId(given.a, 0) => _get_save_index(cand_a) = WErr)
    /\ (~IsNone(cand_b) /\ ~HasId(given.b, 0) => _get_save_index(cand_b) = WErr)
    /\ (~IsNone(cand_a) /\ ~IsNone(cand_b) =>
          /\ (~HasId(given.a, 0) /\ HasId(given.b, 0)
                => result.tag = "GBASave" /\ result.info.slot_used = 1
                   /\ result.info.trainer_id = given.b.tid)
          /\ (HasId(given.a, 0) /\ ~HasId(given.b, 0)
                => result.tag = "GBASave" /\ result.info.slot_used = 0
                   /\ result.info.trainer_id = given.a.tid)
          /\ (~HasId(given.a, 0) /\ ~HasId(given.b, 0)
                => _pick_best_slot(cand_a, cand_b) = "a"))
    /\ (_pick_best_slot(cand_a, cand_b) # "none" /\ ~HasId(Selected, 0) => IsNone(result))

\* both slots are valid, with party and storage sections, and neither has a
\* section 0: the slot at offset 0 was chosen and the parse is absent
C26_Witness ==
  /\ SaveDone /\ given.len = GBA_SAVE_SIZE
  /\ ~IsNone(cand_a) /\ ~IsNone(cand_b)
  /\ ~HasId(given.a, 0) /\ ~HasId(given.b, 0)
  /\ HasPartyAndBoxes(given.a) /\ HasPartyAndBoxes(given.b)
  /\ 1 \in DOMAIN cand_a.d /\ SECTION_PC_BUFFER_A \in DOMAIN cand_a.d
  /\ _pick_best_slot(cand_a, cand_b) = "a"
  /\ IsNone(result)

---------------------------------------------------------------------------
(* Sections that share an id (SpecSave) *)

\* the physical positions (0..13) of slot s that hold section id `id`
PositionsOf(s, id) == {i \in 0 .. GBA_SECTION_COUNT - 1 : s.layout[i + 1] = id}

\* the largest member of a non-empty set of positions
Highest(ps) == CHOOSE i \in ps : \A j \in ps : j <= i

\* C27 -- duplicate section ids: when two or more sections of a slot carry
\* the same id (at most 13), the built slot has that id and its entry is the
\* physically last of them, whether or not the checksums of the earlier ones
\* match; an earlier one that differs from the last is not the entry.
C27_LastDuplicateWins ==
  SaveDone =>
    \A x \in Candidates :
      (x[4] /\ x[1].tag = "dict") =>
        \A id \in 0 .. 13 :
          Cardinality(PositionsOf(x[2], id)) >= 2 =>
            /\ id \in DOMAIN x[1].d
            /\ BytesEq(x[1].d[id], PhysicalSection(x[3], Highest(PositionsOf(x[2], id))))
            /\ \A i \in PositionsOf(x[2], id) :
                 ~BytesEq(PhysicalSection(x[3], i), PhysicalSection(x[3], Highest(PositionsOf(x[2], id))))
                   => ~BytesEq(x[1].d[id], PhysicalSection(x[3], i))

\* section 2 is stored three times, at positions 2, 6 and 9: the first two
\* have matching checksums, the last one differs from them and its checksum
\* does not match, and the last one is the entry of the built slot
C27_Witness ==
  /\ SaveDone /\ cand_a.tag = "dict"
  /\ PositionsOf(given.a, 2) = {2, 6, 9}
  /\ _verify_section_checksum(PhysicalSection(0, 2))
  /\ _verify_section_checksum(PhysicalSection(0, 6))
  /\ ~_verify_section_checksum(PhysicalSection(0, 9))
  /\ ~BytesEq(PhysicalSection(0, 2), PhysicalSection(0, 9))
  /\ BytesEq(cand_a.d[2], PhysicalSection(0, 9))
  /\ Cardinality(DOMAIN cand_a.d) = 5

---------------------------------------------------------------------------
(* Properties of the memory-card slot list (SpecCard) *)

\* no two slots of the card have the same slot_index
DistinctIndexes ==
  \A i \in 1 .. Len(slots) : \A j \in 1 .. Len(slots) :
    slots[i].slot_index = slots[j].slot_index => i = j

\* what one add_slot(slot) does to the list
AddedTo(slot) ==
  IF \E k \in 1 .. Len(slots) : slots[k].slot_index = slot.slot_index
  THEN /\ Len(slots') = Len(slots)
       /\ \A k \in 1 .. Len(slots) :
            slots'[k] = (IF slots[k].slot_index = slot.slot_index THEN slot ELSE slots[k])
  ELSE slots' = slots \o <<slot>>

\* what one remove_slot(index) does to the list and returns
RemovedFrom(index) ==
  IF \E k \in 1 .. Len(slots) : slots[k].slot_index = index
  THEN /\ result'.value = TRUE
       /\ slots' = SelectSeq(slots, LAMBDA s : s.slot_index # index)
       /\ Len(slots') = Len(slots) - 1
  ELSE /\ result'.value = FALSE
       /\ slots' = slots

\* one step of the card obeys the rule of the operation that made it
CardStep ==
  call = "card" =>
    /\ given'.tag \in {"add_slot", "export_team_to_slot"} => AddedTo(given'.slot)
    /\ given'.tag = "remove_slot" => RemovedFrom(given'.index)

\* C28 -- memory-card slot list: on a card that starts empty no two slots
\* ever share a slot_index; add_slot with an index already present replaces
\* that slot in place and otherwise appends; remove_slot of a present index
\* removes exactly that slot and returns true, and of an absent index returns
\* false and leaves the list unchanged.
C28_SlotListDiscipline ==
  /\ [](call = "card" => DistinctIndexes)
  /\ [][CardStep]_vars

\* slot 1, first in a list of three, was just replaced in place by a slot
\* made by export_team_to_slot
C28_Witness ==
  /\ call = "card" /\ Len(slots) = 3
  /\ given.tag = "export_team_to_slot" /\ given.slot.slot_index = 1
  /\ slots[1] = given.slot /\ slots[2].slot_index = 0 /\ slots[3].slot_index = 2
  /\ slots[1].trainer_id = 9 /\ Len(slots[1].party) = 6 /\ Len(slots[1].trainer_name) = 8

---------------------------------------------------------------------------
(* Properties of the link cable (SpecLink) *)

IsTransfer(op) == op.tag \in {"transfer_gba_to_gcn", "transfer_gcn_to_gba"}

\* the history records that carry this session id and were made after the
\* session was created, as dicts
RecordsSince(session) ==
  LET mine == SelectSeq(_transfer_history,
                        LAMBDA r : r.session_id = session.session_id
                                   /\ r.timestamp > session.connected_at)
  IN [k \in 1 .. Len(mine) |-> to_dict(mine[k])]

\* a step of the link: a transfer appends the record it returns, any other
\* operation leaves the history as it is
HistoryStep ==
  call = "link" =>
    IF IsTransfer(given')
    THEN /\ _transfer_history' = _transfer_history \o <<result'>>
         /\ result'.session_id = given'.session_id
    ELSE _transfer_history' = _transfer_history

\* C29 -- transfer history: every transfer call appends exactly one record
\* to the history, whatever its result and whether or not its session
\* exists; no record is removed or moved; and the transfer_log of every
\* session is, in order, the history records with its id made after it was
\* created.
C29_TransferHistory ==
  /\ [][HistoryStep]_vars
  /\ [](call = "link" =>
          \A id \in DOMAIN _active_link_sessions :
            _active_link_sessions[id].transfer_log = RecordsSince(_active_link_sessions[id]))

\* the history holds a failed transfer made under id 1 before session 1
\* existed and a successful one made after: only the second is in the log
C29_Witness ==
  /\ call = "link" /\ Len(_transfer_history) = 2
  /\ 1 \in DOMAIN _active_link_sessions
  /\ _transfer_history[1].session_id = 1 /\ _transfer_history[1].result = "FAILED_ILLEGAL"
  /\ _transfer_history[1].timestamp < _active_link_sessions[1].connected_at
  /\ _transfer_history[2].session_id = 1 /\ _transfer_history[2].result = "SUCCESS"
  /\ _active_link_sessions[1].transfer_log = <<to_dict(_transfer_history[2])>>
  /\ _active_link_sessions[1].transfer_log[1].result = "success"

\* the session the last transfer named is disconnected or was never created
LinkDown(session_id) ==
  \/ session_id \notin DOMAIN _active_link_sessions
  \/ _active_link_sessions[session_id].status = "DISCONNECTED"

\* C30 -- transfers over a disconnected link do not succeed: a transfer that
\* names a disconnected session, or an id no session has, does not return
\* SUCCESS.
C30_NoSuccessWhenDisconnected ==
  (call = "link" /\ IsTransfer(given) /\ LinkDown(given.session_id))
    => result.result # "SUCCESS"

=============================================================================
